---- MODULE Spec2Model ----
(***************************************************************************)
(* A model of the simulation core of DimensionSwitch: the actor            *)
(* (game/player.py), the world registries and particle pool                *)
(* (game/world.py), the entities (game/game_objects.py), the side test     *)
(* (game/utils.py) and the frame loop (game/game_controller.py).           *)
(*                                                                         *)
(* Numbers.  The program computes with floats; the model computes with     *)
(* integers in fixed units chosen so that the values the model reaches     *)
(* are exact (with a gravity powerup and a difficulty other than normal,   *)
(* to within 1/80000 of a world unit):                                      *)
(*   - lengths and velocities of the actor and of the enemies: 1/80000 of  *)
(*     a world unit (Px);                                                  *)
(*   - time steps, timers and particle lifetimes: 1/20 of a second (Sec);  *)
(*   - the wall clock read with time.time(): tenths of a second (Wall);    *)
(*   - powerup multipliers: tenths (1.5 is 15).                            *)
(* pygame.Rect keeps integers: building one from floats truncates, which   *)
(* Trunc models.                                                           *)
(*                                                                         *)
(* Fields of the program that only drive drawing or sound (direction,      *)
(* animation_state, animation_frame, frame_timer, last_x, step_distance,   *)
(* score, last_safe_position, colours, the "step" event) are not read by   *)
(* any other code and are left out.                                        *)
(***************************************************************************)
EXTENDS Integers, Sequences, FiniteSets, TLC

Px(n) == 80000 * n
Sec(n) == 20 * n
Wall(n) == 10 * n

Min(a, b) == IF a <= b THEN a ELSE b
Max(a, b) == IF a >= b THEN a ELSE b

(* int(v): truncation toward zero of a float given in Px units. *)
Trunc(v) == IF v >= 0 THEN v \div Px(1) ELSE -((-v) \div Px(1))

(***************************************************************************)
(* Program constants                                                       *)
(***************************************************************************)
SCREEN_WIDTH == 1280
SCREEN_HEIGHT == 720
LEVEL_WIDTH == 3000
LEVEL_HEIGHT == 1000
PLAYER_STARTING_LIVES == 3
GRAVITY == Px(1) \div 2
PLAYER_SPEED == Px(5)
PLAYER_JUMP_STRENGTH == -Px(16)
MAX_FALL_SPEED == Px(15)
PLAYER_INVINCIBILITY_AFTER_HIT == Sec(2)
DIMENSION_NORMAL == 1
DIMENSION_MIRROR == 2
MAX_DIMENSIONS == 4
DIMENSION_TIME_SLOW == 3
DIMENSION_CHANGE_COOLDOWN == Sec(1)
Player_width == 40
Player_height == 60
PortalCooldown == Wall(1)
PortalSleep == 3

PowerupTypes == {"speed", "jump", "invincibility", "gravity"}

(* Powerup.setup_properties: the duration of each type. *)
Duration(t) ==
  CASE t = "speed" -> Sec(10)
    [] t = "jump" -> Sec(15)
    [] t = "invincibility" -> Sec(5)
    [] t = "gravity" -> Sec(8)
    [] OTHER -> Sec(10)

(***************************************************************************)
(* Rectangles (pygame.Rect) and the side test                              *)
(***************************************************************************)
Rect(fx, fy, w, h) == [x |-> Trunc(fx), y |-> Trunc(fy), w |-> w, h |-> h]

(* GameObject.get_rect for an entity whose coordinates are whole numbers. *)
get_rect(o) == [x |-> o.x, y |-> o.y, w |-> o.width, h |-> o.height]

colliderect(a, b) ==
  /\ a.x < b.x + b.w
  /\ a.y < b.y + b.h
  /\ a.x + a.w > b.x
  /\ a.y + a.h > b.y

(* Rect.collidepoint with float arguments, which pygame truncates. *)
collidepoint(r, fx, fy) ==
  /\ r.x <= Trunc(fx) /\ Trunc(fx) < r.x + r.w
  /\ r.y <= Trunc(fy) /\ Trunc(fy) < r.y + r.h

centerx(r) == r.x + r.w \div 2
centery(r) == r.y + r.h \div 2

overlap_x(r1, r2) == Min(r1.x + r1.w, r2.x + r2.w) - Max(r1.x, r2.x)
overlap_y(r1, r2) == Min(r1.y + r1.h, r2.y + r2.h) - Max(r1.y, r2.y)

(* A faulty variant of check_collision: equal overlaps count as a
   horizontal collision. *)
check_collision_tie_horizontal(rect1, rect2) ==
  IF ~colliderect(rect1, rect2) THEN ""
  ELSE IF overlap_x(rect1, rect2) > overlap_y(rect1, rect2)
       THEN (IF centery(rect1) < centery(rect2) THEN "bottom" ELSE "top")
       ELSE (IF centerx(rect1) < centerx(rect2) THEN "right" ELSE "left")

check_collision(rect1, rect2) ==
  IF ~colliderect(rect1, rect2) THEN ""
  ELSE IF overlap_x(rect1, rect2) >= overlap_y(rect1, rect2)
       THEN (IF centery(rect1) < centery(rect2) THEN "bottom" ELSE "top")
       ELSE (IF centerx(rect1) < centerx(rect2) THEN "right" ELSE "left")

(***************************************************************************)
(* The actor: Player                                                       *)
(***************************************************************************)
NoTimers == [t \in {} |-> 0]

(* Player.reset(x, y), read at wall-clock time now. *)
reset(x, y, now) ==
  [ x |-> x, y |-> y,
    velocity_x |-> 0, velocity_y |-> 0,
    on_ground |-> FALSE,
    is_dead |-> FALSE, level_completed |-> FALSE, collected_item |-> FALSE,
    jump_count |-> 0, max_jumps |-> 2,
    lives |-> PLAYER_STARTING_LIVES,
    active_powerups |-> [t \in PowerupTypes |-> FALSE],
    powerup_timers |-> NoTimers,
    invincible_timer |-> 0,
    bottom |-> Rect(x + Px(5), y + Px(Player_height - 5), Player_width - 10, 5),
    last_portal_time |-> now ]

(* Player.get_powerup_effect, in tenths. An absent key of active_powerups
   reads as False everywhere in the program, and is modelled as FALSE. *)
get_powerup_effect(p, t) ==
  IF ~p.active_powerups[t] THEN 10
  ELSE CASE t = "speed" -> 15
         [] t = "jump" -> 13
         [] t = "gravity" -> 7
         [] OTHER -> 10

move_left(p) ==
  [p EXCEPT !.velocity_x = -((PLAYER_SPEED * get_powerup_effect(p, "speed")) \div 10)]

move_right(p) ==
  [p EXCEPT !.velocity_x = (PLAYER_SPEED * get_powerup_effect(p, "speed")) \div 10]

stop_horizontal_movement(p) == [p EXCEPT !.velocity_x = 0]

(* A faulty variant of jump: the jump is not counted. *)
jump_uncounted(p) ==
  IF p.jump_count < p.max_jumps
  THEN [p EXCEPT !.velocity_y = PLAYER_JUMP_STRENGTH, !.on_ground = FALSE]
  ELSE p

(* A faulty variant of jump: the limit test is off by one. *)
jump_off_by_one(p) ==
  IF p.jump_count <= p.max_jumps
  THEN [p EXCEPT !.velocity_y = PLAYER_JUMP_STRENGTH,
                 !.jump_count = @ + 1,
                 !.on_ground = FALSE]
  ELSE p

(* A faulty variant of jump: the actor is left on the ground. *)
jump_stays_grounded(p) ==
  IF p.jump_count < p.max_jumps
  THEN LET jump_multiplier == get_powerup_effect(p, "jump")
           jump_strength == IF p.jump_count > 0
                            THEN (PLAYER_JUMP_STRENGTH * 8) \div 10
                            ELSE PLAYER_JUMP_STRENGTH
       IN [p EXCEPT !.velocity_y = (jump_strength * jump_multiplier) \div 10,
                    !.jump_count = @ + 1]
  ELSE p

(* Player.jump. *)
jump(p) ==
  IF p.jump_count < p.max_jumps
  THEN LET jump_multiplier == get_powerup_effect(p, "jump")
           jump_strength == IF p.jump_count > 0
                            THEN (PLAYER_JUMP_STRENGTH * 8) \div 10
                            ELSE PLAYER_JUMP_STRENGTH
       IN [p EXCEPT !.velocity_y = (jump_strength * jump_multiplier) \div 10,
                    !.jump_count = @ + 1,
                    !.on_ground = FALSE]
  ELSE p

player_rect(p) == Rect(p.x, p.y, Player_width, Player_height)

(* A faulty variant of add_powerup: the timer is overwritten, not extended. *)
add_powerup_overwrite(p, t, duration) ==
  [p EXCEPT !.active_powerups[t] = TRUE,
            !.powerup_timers =
               [k \in DOMAIN p.powerup_timers \cup {t} |->
                  IF k = t THEN duration ELSE p.powerup_timers[k]],
            !.max_jumps = IF t = "jump" THEN 3 ELSE @]

add_powerup(p, t, duration) ==
  [p EXCEPT !.active_powerups[t] = TRUE,
            !.powerup_timers =
               [k \in DOMAIN p.powerup_timers \cup {t} |->
                  IF k = t
                  THEN (IF t \in DOMAIN p.powerup_timers
                        THEN p.powerup_timers[t] + duration
                        ELSE duration)
                  ELSE p.powerup_timers[k]],
            !.max_jumps = IF t = "jump" THEN 3 ELSE @]

(* A faulty variant of update_powerups: a timer that reaches exactly 0 is
   kept for one more call. *)
update_powerups_late(p, dt) ==
  LET expired == {t \in DOMAIN p.powerup_timers : p.powerup_timers[t] - dt < 0}
  IN [p EXCEPT !.powerup_timers =
                  [k \in DOMAIN p.powerup_timers \ expired |-> p.powerup_timers[k] - dt],
               !.active_powerups =
                  [k \in PowerupTypes |-> IF k \in expired THEN FALSE ELSE @[k]],
               !.max_jumps = IF "jump" \in expired THEN 2 ELSE @,
               !.invincible_timer = IF @ > 0 THEN @ - dt ELSE @]

(* A faulty variant of update_powerups: a timer that has run out is removed
   and the powerup is left switched on. *)
update_powerups_keeps_flag(p, dt) ==
  LET expired == {t \in DOMAIN p.powerup_timers : p.powerup_timers[t] - dt <= 0}
  IN [p EXCEPT !.powerup_timers =
                  [k \in DOMAIN p.powerup_timers \ expired |-> p.powerup_timers[k] - dt],
               !.max_jumps = IF "jump" \in expired THEN 2 ELSE @,
               !.invincible_timer = IF @ > 0 THEN @ - dt ELSE @]

(* Player.update_powerups. *)
update_powerups(p, dt) ==
  LET expired == {t \in DOMAIN p.powerup_timers : p.powerup_timers[t] - dt <= 0}
  IN [p EXCEPT !.powerup_timers =
                  [k \in DOMAIN p.powerup_timers \ expired |-> p.powerup_timers[k] - dt],
               !.active_powerups =
                  [k \in PowerupTypes |-> IF k \in expired THEN FALSE ELSE @[k]],
               !.max_jumps = IF "jump" \in expired THEN 2 ELSE @,
               !.invincible_timer = IF @ > 0 THEN @ - dt ELSE @]

(* A faulty variant of is_invincible: the post-hit timer is not looked at. *)
is_invincible_by_powerup(p) == p.active_powerups["invincibility"]

is_invincible(p) == p.invincible_timer > 0 \/ p.active_powerups["invincibility"]

(***************************************************************************)
(* Player.update, in the order of the source                               *)
(***************************************************************************)

(* Player.update up to the call of the resolver: gravity, the fall-speed
   clamp, the move, the world-bounds clamp and _update_collision_rects. *)
integrate(p, dt) ==
  LET gravity_multiplier == get_powerup_effect(p, "gravity")
      vy == Min(p.velocity_y + (GRAVITY * gravity_multiplier * dt) \div (10 * Sec(1)),
                (MAX_FALL_SPEED * gravity_multiplier) \div 10)
      nx == Max(0, Min(p.x + (p.velocity_x * dt) \div Sec(1), Px(LEVEL_WIDTH - Player_width)))
      ny == p.y + (vy * dt) \div Sec(1)
  IN [p EXCEPT !.velocity_y = vy, !.x = nx, !.y = ny,
               !.bottom = Rect(nx + Px(5), ny + Px(Player_height - 5),
                               Player_width - 10, 5)]

(* The enlarged ground probe of check_platform_collisions. *)
ground_probe(p) ==
  Rect(p.x + Px(2), p.y + Px(Player_height - 6), Player_width - 4, 10)

(* A faulty variant of the dimension gate: every tagged platform is solid
   in every dimension. *)
isActiveIn_everywhere(tag, dimension) == tag = -1 \/ tag >= 1

(* The dimension gate of check_platform_collisions. *)
isActiveIn(tag, dimension) == tag = -1 \/ tag = dimension

(* A faulty variant of land: the jump count survives the landing. *)
land_keeps_count(p, platform_rect) ==
  [p EXCEPT !.y = Px(platform_rect.y - Player_height),
            !.velocity_y = 0,
            !.on_ground = TRUE]

(* A faulty variant of land: the actor is snapped one unit too low. *)
land_too_low(p, platform_rect) ==
  [p EXCEPT !.y = Px(platform_rect.y - Player_height + 1),
            !.velocity_y = 0,
            !.on_ground = TRUE,
            !.jump_count = 0]

(* A landing resolution: the actor is snapped onto the platform's top. *)
land(p, platform_rect) ==
  [p EXCEPT !.y = Px(platform_rect.y - Player_height),
            !.velocity_y = 0,
            !.on_ground = TRUE,
            !.jump_count = 0]

(* The body of the loop of check_platform_collisions for one platform;
   prect and brect are the rectangles built before the loop. *)
resolve_platform(p, platform, dim, prect, brect) ==
  LET platform_rect == get_rect(platform)
      collision_side == check_collision(prect, platform_rect)
  IN IF ~isActiveIn(platform.dimension_visible, dim) THEN p
     ELSE IF ~colliderect(prect, platform_rect) THEN p
     ELSE IF colliderect(brect, platform_rect) /\ p.velocity_y >= 0
          THEN land(p, platform_rect)
     ELSE CASE collision_side = "bottom" -> land(p, platform_rect)
            [] collision_side = "top" ->
                 [p EXCEPT !.y = Px(platform_rect.y + platform_rect.h),
                           !.velocity_y = 0]
            [] collision_side = "left" ->
                 [p EXCEPT !.x = Px(platform_rect.x - Player_width + 1),
                           !.velocity_x = 0]
            [] collision_side = "right" ->
                 [p EXCEPT !.x = Px(platform_rect.x + platform_rect.w - 1),
                           !.velocity_x = 0]
            [] OTHER -> p

RECURSIVE resolve_from(_, _, _, _, _, _)
resolve_from(p, plats, i, dim, prect, brect) ==
  IF i > Len(plats) THEN p
  ELSE resolve_from(resolve_platform(p, plats[i], dim, prect, brect),
                    plats, i + 1, dim, prect, brect)

check_platform_collisions(p, plats, dim) ==
  resolve_from([p EXCEPT !.on_ground = FALSE], plats, 1, dim,
               player_rect(p), ground_probe(p))

(* Player._check_portal_collision at wall-clock time now. *)
portal_overlap(p, portal) ==
  \/ collidepoint(get_rect(portal), p.x + Px(Player_width) \div 2,
                  p.y + Px(Player_height) \div 2)
  \/ colliderect(player_rect(p), get_rect(portal))

(* A faulty variant of _check_portal_collision: the cooldown is not tested. *)
check_portal_collision_no_cooldown(p, prtls, now) ==
  \E i \in 1..Len(prtls) : portal_overlap(p, prtls[i])

(* A faulty variant of _check_portal_collision: a trigger exactly one second
   after the last one is still refused. *)
check_portal_collision_inclusive(p, prtls, now) ==
  IF now - p.last_portal_time <= PortalCooldown THEN FALSE
  ELSE \E i \in 1..Len(prtls) : portal_overlap(p, prtls[i])

check_portal_collision(p, prtls, now) ==
  IF now - p.last_portal_time < PortalCooldown THEN FALSE
  ELSE \E i \in 1..Len(prtls) : portal_overlap(p, prtls[i])

(* Player.check_collectible_collisions: the registry afterwards. *)
check_collectible_collisions(p, colls) ==
  [i \in 1..Len(colls) |->
     IF ~colls[i].collected /\ colliderect(player_rect(p), get_rect(colls[i]))
     THEN [colls[i] EXCEPT !.collected = TRUE]
     ELSE colls[i]]

(* Player.check_enemy_collisions from enemy i on: the verdict, the index of
   the enemy it is about, and the actor. *)
RECURSIVE check_enemy_from(_, _, _)
check_enemy_from(p, enms, i) ==
  IF i > Len(enms) THEN [hit |-> "none", enemy |-> 0]
  ELSE LET enemy_rect == Rect(enms[i].x, Px(enms[i].y), enms[i].width,
                                enms[i].height)
       IN IF enms[i].is_dead \/ ~colliderect(player_rect(p), enemy_rect)
          THEN check_enemy_from(p, enms, i + 1)
          ELSE IF colliderect(p.bottom, enemy_rect) /\ p.velocity_y > 0
               THEN [hit |-> "enemy_death", enemy |-> i]
               ELSE IF ~is_invincible(p)
                    THEN [hit |-> "player_death", enemy |-> i]
                    ELSE check_enemy_from(p, enms, i + 1)

check_enemy_collisions(p, enms) == check_enemy_from(p, enms, 1)

(* Player.update(dt, platforms, portals, collectibles, enemies,
   current_dimension) called at wall-clock time now: the actor, the returned
   events, the registries it changed and whether it slept. *)
update_physics(p, dt, plats, colls, enms, dim) ==
  [player |-> update_powerups(
                check_platform_collisions(integrate(p, dt), plats, dim), dt),
   events |-> {}, collectibles |-> colls, enemies |-> enms, slept |-> FALSE]

(* The portal part of update: the event, level_completed, the sleep. *)
update_portal(u, prtls, now) ==
  IF check_portal_collision(u.player, prtls, now)
  THEN [u EXCEPT !.player.last_portal_time = now,
                 !.player.level_completed = TRUE,
                 !.events = @ \cup {"level_complete"},
                 !.slept = TRUE]
  ELSE u

(* The collectible part of update. *)
update_collect(u) ==
  LET collected == check_collectible_collisions(u.player, u.collectibles)
  IN IF collected # u.collectibles
     THEN [u EXCEPT !.player.collected_item = TRUE,
                    !.collectibles = collected,
                    !.events = @ \cup {"collect"}]
     ELSE u

(* A faulty variant of the enemy part of update: a hit grants no
   invincibility. *)
update_enemy_no_grace(u) ==
  LET enemy_hit == check_enemy_collisions(u.player, u.enemies)
  IN IF enemy_hit.hit = "enemy_death"
     THEN [u EXCEPT !.player.velocity_y = (PLAYER_JUMP_STRENGTH * 7) \div 10,
                    !.enemies[enemy_hit.enemy].is_dead = TRUE,
                    !.events = @ \cup {"enemy_death"}]
     ELSE IF enemy_hit.hit = "player_death"
     THEN [u EXCEPT !.player.lives = @ - 1,
                    !.player.is_dead = (u.player.lives - 1 <= 0),
                    !.events = @ \cup {"player_death"}]
     ELSE u

(* A faulty variant of the enemy part of update: a stomp kills the enemy
   and leaves the actor falling. *)
update_enemy_no_bounce(u) ==
  LET enemy_hit == check_enemy_collisions(u.player, u.enemies)
      hurt == /\ enemy_hit.hit = "player_death"
              /\ ~is_invincible(u.player)
              /\ ~u.player.active_powerups["invincibility"]
  IN IF enemy_hit.hit = "enemy_death"
     THEN [u EXCEPT !.enemies[enemy_hit.enemy].is_dead = TRUE,
                    !.events = @ \cup {"enemy_death"}]
     ELSE IF hurt
     THEN [u EXCEPT !.player.lives = @ - 1,
                    !.player.is_dead = (u.player.lives - 1 <= 0),
                    !.player.invincible_timer =
                       IF u.player.lives - 1 <= 0 THEN @
                       ELSE PLAYER_INVINCIBILITY_AFTER_HIT,
                    !.events = @ \cup {"player_death"}]
     ELSE u

(* The enemy part of update: a stomp kills the enemy and bounces the actor,
   a hit costs a life unless the actor is invincible. *)
update_enemy(u) ==
  LET enemy_hit == check_enemy_collisions(u.player, u.enemies)
      hurt == /\ enemy_hit.hit = "player_death"
              /\ ~is_invincible(u.player)
              /\ ~u.player.active_powerups["invincibility"]
  IN IF enemy_hit.hit = "enemy_death"
     THEN [u EXCEPT !.player.velocity_y = (PLAYER_JUMP_STRENGTH * 7) \div 10,
                    !.enemies[enemy_hit.enemy].is_dead = TRUE,
                    !.events = @ \cup {"enemy_death"}]
     ELSE IF hurt
     THEN [u EXCEPT !.player.lives = @ - 1,
                    !.player.is_dead = (u.player.lives - 1 <= 0),
                    !.player.invincible_timer =
                       IF u.player.lives - 1 <= 0 THEN @
                       ELSE PLAYER_INVINCIBILITY_AFTER_HIT,
                    !.events = @ \cup {"player_death"}]
     ELSE u

(* The fall out of the level at the end of update. *)
update_fall(u) ==
  IF u.player.y > Px(LEVEL_HEIGHT)
  THEN [u EXCEPT !.player.lives = @ - 1,
                 !.player.is_dead = (u.player.lives - 1 <= 0),
                 !.events = @ \cup {"player_death"}]
  ELSE u

update(p, dt, plats, prtls, colls, enms, dim, now) ==
  IF p.is_dead
  THEN [player |-> p, events |-> {}, collectibles |-> colls, enemies |-> enms,
        slept |-> FALSE]
  ELSE update_fall(
         update_enemy(
           update_collect(
             update_portal(update_physics(p, dt, plats, colls, enms, dim),
                           prtls, now))))

(***************************************************************************)
(* Entities and the world registries                                       *)
(***************************************************************************)
Platform(x, y, width, height) ==
  [x |-> x, y |-> y, width |-> width, height |-> height, dimension_visible |-> -1]

PlatformIn(x, y, width, height, dimension) ==
  [Platform(x, y, width, height) EXCEPT !.dimension_visible = dimension]

Enemy(x, y, patrol_left, patrol_right) ==
  [x |-> Px(x), y |-> y, width |-> 40, height |-> 40,
   patrol_left |-> patrol_left, patrol_right |-> patrol_right,
   speed |-> 2, direction |-> 1, is_dead |-> FALSE]

Collectible(x, y) == [x |-> x, y |-> y, width |-> 20, height |-> 20, collected |-> FALSE]

Portal(x, y) == [x |-> x, y |-> y, width |-> 40, height |-> 60]

Powerup(x, y, powerup_type) ==
  [x |-> x, y |-> y, width |-> 30, height |-> 30, powerup_type |-> powerup_type,
   duration |-> Duration(powerup_type), collected |-> FALSE, dimension_visible |-> -1]

(* World._clear_level: the ground platform, always present. *)
Floor == Platform(0, SCREEN_HEIGHT - 50, SCREEN_WIDTH, 50)

(* World._generate_tutorial_level after _clear_level. *)
TutorialLevel ==
  [platforms |-> << Floor,
                    Platform(300, 550, 200, 20), Platform(600, 450, 200, 20),
                    Platform(300, 350, 200, 20), Platform(600, 250, 200, 20) >>,
   collectibles |-> << Collectible(350, 520), Collectible(650, 220) >>,
   enemies |-> << >>,
   portals |-> << Portal(750, 190) >>,
   powerups |-> << >>]

(* World._generate_mirror_level after _clear_level. *)
MirrorLevel ==
  [platforms |-> << Floor,
                    Platform(200, 600, 150, 20), Platform(400, 500, 150, 20),
                    Platform(600, 400, 150, 20), Platform(800, 300, 150, 20),
                    Platform(1000, 200, 150, 20),
                    PlatformIn(300, 450, 100, 20, DIMENSION_MIRROR),
                    PlatformIn(700, 250, 100, 20, DIMENSION_MIRROR) >>,
   collectibles |-> << Collectible(250, 570), Collectible(450, 470),
                       Collectible(650, 370), Collectible(850, 270) >>,
   enemies |-> << Enemy(450, 470, 400, 600), Enemy(850, 270, 800, 950) >>,
   portals |-> << Portal(1080, 140) >>,
   powerups |-> << >>]

(* World._generate_time_warp_level after _clear_level. *)
TimeWarpLevel ==
  [platforms |-> << Floor,
                    Platform(100, 500, 200, 20), Platform(500, 500, 200, 20),
                    Platform(790, 410, 180, 20), Platform(750, 450, 150, 20),
                    Platform(850, 370, 150, 20), Platform(700, 250, 180, 20),
                    Platform(400, 350, 150, 20), Platform(200, 400, 150, 20),
                    PlatformIn(500, 300, 150, 20, DIMENSION_TIME_SLOW),
                    PlatformIn(300, 200, 150, 20, DIMENSION_TIME_SLOW) >>,
   collectibles |-> << Collectible(250, 570), Collectible(550, 470),
                       Collectible(850, 370), Collectible(550, 270),
                       Collectible(350, 170) >>,
   enemies |-> << [Enemy(550, 470, 500, 700) EXCEPT !.speed = 5],
                  [Enemy(750, 380, 700, 900) EXCEPT !.speed = 4] >>,
   portals |-> << Portal(900, 340) >>,
   powerups |-> << Powerup(300, 370, "gravity") >>]

(* list.sort(key=lambda p: p.y): ascending in y, and stable. *)
RECURSIVE insert_by_y(_, _)
insert_by_y(sorted, p) ==
  IF sorted = << >> THEN << p >>
  ELSE IF sorted[Len(sorted)].y <= p.y THEN Append(sorted, p)
  ELSE Append(insert_by_y(SubSeq(sorted, 1, Len(sorted) - 1), p),
              sorted[Len(sorted)])

RECURSIVE sort_by_y(_)
sort_by_y(plats) ==
  IF plats = << >> THEN << >>
  ELSE insert_by_y(sort_by_y(SubSeq(plats, 1, Len(plats) - 1)),
                   plats[Len(plats)])

(* The random numbers a build consumes.  platforms: x, y, width and the
   dimension tag (-1: random() was not below 0.3) of each platform;
   enemies, collectibles: what random.choice picked (counted from 1 and
   reduced to the length of the list) and whether randint gave the low or
   the high end of its range. *)
NoDraw == [platforms |-> << >>, enemies |-> << >>, collectibles |-> << >>]

(* random.choice(self.platforms[1:]) *)
choice_of(plats, pick) == plats[2 + ((pick - 1) % (Len(plats) - 1))]

(* World._generate_random_level after _clear_level. *)
generate_random_level(level_number, d) ==
  LET plats == sort_by_y(<< Floor >> \o
                 [i \in 1..(5 + level_number) |->
                    PlatformIn(d.platforms[i].x, d.platforms[i].y,
                               d.platforms[i].width, 20, d.platforms[i].tag)])
      level_width == SCREEN_WIDTH + level_number * 100
  IN [platforms |-> plats,
      enemies |->
        [i \in 1..level_number |->
           LET on == choice_of(plats, d.enemies[i].pick)
           IN Enemy(on.x + (IF d.enemies[i].low THEN 20 ELSE on.width - 40),
                    on.y - 40,
                    Max(on.x - 50, 0),
                    Min(on.x + on.width + 50, level_width))],
      collectibles |->
        [i \in 1..(3 + level_number) |->
           LET on == choice_of(plats, d.collectibles[i].pick)
           IN Collectible(on.x + (IF d.collectibles[i].low THEN 10
                                  ELSE on.width - 20),
                          on.y - 30)],
      portals |-> << Portal(plats[2].x + plats[2].width - 30, plats[2].y - 60) >>,
      powerups |-> << >>]

(* Enemy.update(dt, current_dimension); the animation timer is left out. *)
Enemy_update(e, dt) ==
  IF e.is_dead THEN e
  ELSE LET nx == e.x + (Px(e.speed) * e.direction * dt) \div Sec(1)
       IN IF nx <= Px(e.patrol_left)
          THEN [e EXCEPT !.x = Px(e.patrol_left), !.direction = 1]
          ELSE IF nx + Px(e.width) >= Px(e.patrol_right)
               THEN [e EXCEPT !.x = Px(e.patrol_right - e.width), !.direction = -1]
               ELSE [e EXCEPT !.x = nx]

(***************************************************************************)
(* The foreground particle pool of World.  A particle is modelled by its   *)
(* remaining lifetime (in Sec units); position, velocity, size and colour  *)
(* index play no part in the pool's bookkeeping.                           *)
(***************************************************************************)
(* World.particle_pool_size is 300 in the source; the pool is scaled down. *)
particle_pool_size == 2

(* _init_particles: np.zeros((particle_pool_size, 7)). *)
ZeroPool == [i \in 1..particle_pool_size |-> [life |-> 0]]

(* random.uniform lifetimes by dimension: the ends of each range. *)
LifeSet(dimension) ==
  IF dimension = DIMENSION_NORMAL THEN {Sec(1), Sec(3)}
  ELSE IF dimension = DIMENSION_MIRROR THEN {Sec(1) \div 2, Sec(2)}
  ELSE {Sec(2), Sec(5)}

Lifetimes == UNION {LifeSet(d) : d \in 1..MAX_DIMENSIONS}

(* A faulty variant of the particle part of World.update: the count is
   lowered but the survivors are not moved to the front. *)
age_particles_unmoved(buffer, active, dt) ==
  IF active > 0
  THEN LET aged == [i \in DOMAIN buffer |->
                      IF i <= active THEN [buffer[i] EXCEPT !.life = @ - dt]
                                     ELSE buffer[i]]
           dead_count == Cardinality({i \in 1..active : aged[i].life <= 0})
       IN [active |-> active - dead_count, buffer |-> aged]
  ELSE [active |-> active, buffer |-> buffer]

(* The particle part of World.update: age the active prefix, count the
   dead, shrink the count and move the survivors to the front in order. *)
age_particles(buffer, active, dt) ==
  IF active > 0
  THEN LET aged == [i \in DOMAIN buffer |->
                      IF i <= active THEN [buffer[i] EXCEPT !.life = @ - dt]
                                     ELSE buffer[i]]
           dead_count == Cardinality({i \in 1..active : aged[i].life <= 0})
           remaining == active - dead_count
           alive(q) == q.life > 0
           survivors == SelectSeq(SubSeq(aged, 1, active), alive)
       IN IF dead_count > 0
          THEN [active |-> remaining,
                buffer |-> IF remaining > 0
                           THEN [i \in DOMAIN aged |->
                                   IF i <= remaining THEN survivors[i] ELSE aged[i]]
                           ELSE aged]
          ELSE [active |-> active, buffer |-> aged]
  ELSE [active |-> active, buffer |-> buffer]

(* A faulty variant of _add_dimension_particle: the full pool is not
   detected. *)
add_dimension_particle_unguarded(buffer, active, life) ==
  [active |-> active + 1,
   buffer |-> IF active < particle_pool_size
              THEN [buffer EXCEPT ![active + 1] = [life |-> Min(life, Sec(10))]]
              ELSE buffer,
   returned |-> "None"]

(* A faulty variant of _add_dimension_particle: a full pool takes the new
   particle in its last slot. *)
add_dimension_particle_overwrite(buffer, active, life) ==
  IF active >= particle_pool_size
  THEN [active |-> active,
        buffer |-> [buffer EXCEPT ![particle_pool_size] =
                      [life |-> Min(life, Sec(10)) + 1]],
        returned |-> "None"]
  ELSE [active |-> active + 1,
        buffer |-> [buffer EXCEPT ![active + 1] =
                      [life |-> Min(life, Sec(10))]],
        returned |-> "None"]

(* World._add_dimension_particle with the drawn lifetime.  The
   lifetime is clamped to at most 10 s; the lower clamp of 0.1 s lies below
   every lifetime that is drawn.  The method is declared -> None: the bare
   return of the full pool and the end of the body both give None. *)
add_dimension_particle(buffer, active, life) ==
  IF active >= particle_pool_size
  THEN [active |-> active, buffer |-> buffer, returned |-> "None"]
  ELSE [active |-> active + 1,
        buffer |-> [buffer EXCEPT ![active + 1] =
                      [life |-> Min(life, Sec(10))]],
        returned |-> "None"]

(* World.generate_level; d is what the random builder draws. *)
generate_level(level_number, d) ==
  IF level_number = 0 THEN TutorialLevel
  ELSE IF level_number = 1 THEN MirrorLevel
  ELSE IF level_number = 2 THEN TimeWarpLevel
  ELSE generate_random_level(level_number, d)

(* World.__init__: the camera and its target at the origin. *)
NoCamera == [x |-> 0, y |-> 0, target_x |-> 0, target_y |-> 0]

(* camera_smoothing = 0.1 * dt * 60 of World.update, in tenths. *)
camera_smoothing(dt) == (60 * dt) \div Sec(1)

(* World.update, the camera: the target is the actor less half a screen,
   kept within world_width - SCREEN_WIDTH and world_height - SCREEN_HEIGHT,
   which _clear_level and World.__init__ leave at 0; the camera moves
   toward it by the smoothing factor. *)
update_camera(c, dt, player_x, player_y) ==
  LET tx == Max(0, Min(player_x - Px(SCREEN_WIDTH \div 2),
                       Px(SCREEN_WIDTH - SCREEN_WIDTH)))
      ty == Max(0, Min(player_y - Px(SCREEN_HEIGHT \div 2),
                       Px(SCREEN_HEIGHT - SCREEN_HEIGHT)))
  IN [x |-> c.x + ((tx - c.x) * camera_smoothing(dt)) \div 10,
      y |-> c.y + ((ty - c.y) * camera_smoothing(dt)) \div 10,
      target_x |-> tx, target_y |-> ty]

RECURSIVE update_enemies(_, _)
update_enemies(enms, dt) ==
  IF enms = << >> THEN << >>
  ELSE << Enemy_update(Head(enms), dt) >> \o update_enemies(Tail(enms), dt)


(***************************************************************************)
(* GameController: the frame loop's handlers                               *)
(***************************************************************************)
(* The time step GameController.update hands to Player.update and to
   World.update: 0.5 in dimension 3 and 1.0 otherwise, times 0.9 or 1.1 by
   difficulty.  The frame's dt is not part of it. *)
time_factor(dimension, difficulty) ==
  LET by_dimension == IF dimension = 3 THEN Sec(1) \div 2 ELSE Sec(1)
  IN IF difficulty = 0 THEN (by_dimension * 9) \div 10
     ELSE IF difficulty = 2 THEN (by_dimension * 11) \div 10
     ELSE by_dimension

(* GameController.switch_dimension. *)
switch_dimension(dimension) == (dimension % MAX_DIMENSIONS) + 1

(* World.check_player_powerup_collisions: the first visible, uncollected
   powerup the actor overlaps is collected and applied. *)
RECURSIVE first_powerup_hit(_, _, _, _)
first_powerup_hit(p, pws, dim, i) ==
  IF i > Len(pws) THEN 0
  ELSE IF /\ ~(pws[i].dimension_visible # -1 /\ pws[i].dimension_visible # dim)
          /\ ~pws[i].collected
          /\ colliderect(player_rect(p), get_rect(pws[i]))
       THEN i
       ELSE first_powerup_hit(p, pws, dim, i + 1)

(* A faulty variant of check_player_powerup_collisions: a powerup that
   was collected before is collected again. *)
check_player_powerup_collisions_again(p, pws, dim) ==
  LET hits == { i \in 1..Len(pws) :
                  /\ ~(pws[i].dimension_visible # -1 /\ pws[i].dimension_visible # dim)
                  /\ colliderect(player_rect(p), get_rect(pws[i])) }
      i == IF hits = {} THEN 0
           ELSE CHOOSE k \in hits : \A h \in hits : k <= h
  IN IF i = 0
     THEN [player |-> p, powerups |-> pws, powerup_collected |-> FALSE]
     ELSE [player |-> add_powerup(p, pws[i].powerup_type, pws[i].duration),
           powerups |-> [pws EXCEPT ![i].collected = TRUE],
           powerup_collected |-> TRUE]

check_player_powerup_collisions(p, pws, dim) ==
  LET i == first_powerup_hit(p, pws, dim, 1)
  IN IF i = 0
     THEN [player |-> p, powerups |-> pws, powerup_collected |-> FALSE]
     ELSE [player |-> add_powerup(p, pws[i].powerup_type, pws[i].duration),
           powerups |-> [pws EXCEPT ![i].collected = TRUE],
           powerup_collected |-> TRUE]

(* World.spawn_powerup(x, y, powerup_type); the position is kept as the
   whole numbers pygame.Rect makes of it. *)
spawn_powerup(pws, fx, fy, powerup_type) ==
  Append(pws, Powerup(Trunc(fx), Trunc(fy), powerup_type))

(* World(): empty registries. *)
EmptyLevel ==
  [platforms |-> << >>, collectibles |-> << >>, enemies |-> << >>,
   portals |-> << >>, powerups |-> << >>]

(* pygame.time.delay(100) and pygame.time.delay(500) of
   handle_level_completion, on the wall clock. *)
LevelDelay == Wall(1) \div 10
FreezeDelay == Wall(1) \div 2

(* The handlers below work on a record g of the game: the actor, the
   registries and particle pool of the world, the controller's level
   number and menu, the wall clock, the events Player.update returned,
   the random numbers a build of the frame draws (draw), and what the
   handlers of the frame have done (handled). *)
NotHandled == [completion |-> "none", death |-> "none"]

(* g after Player.update has returned r. *)
player_done(g, r) ==
  [g EXCEPT !.player = r.player, !.events = r.events,
            !.collectibles = r.collectibles, !.enemies = r.enemies,
            !.now = IF r.slept THEN @ + PortalSleep ELSE @]

(* g after check_player_powerup_collisions has returned c. *)
powerups_done(g, c) ==
  [g EXCEPT !.player = c.player, !.powerups = c.powerups]

powerups_checked(g, dim) ==
  powerups_done(g, check_player_powerup_collisions(g.player, g.powerups, dim))

(* The random powerup spawns of GameController.update: after a collect
   with the type on_collect, after an enemy's death with the type
   on_enemy_death ("none": the random test failed).  The random offsets
   are taken at 0 (horizontal) and at their least (vertical). *)
spawn_on_collect(g, on_collect) ==
  IF "collect" \in g.events /\ on_collect # "none"
  THEN [g EXCEPT !.powerups =
          spawn_powerup(@, g.player.x, g.player.y - Px(100), on_collect)]
  ELSE g

spawn_on_enemy_death(g, on_enemy_death) ==
  IF "enemy_death" \in g.events /\ on_enemy_death # "none"
  THEN [g EXCEPT !.powerups =
          spawn_powerup(@, g.player.x, g.player.y - Px(50), on_enemy_death)]
  ELSE g

(* self.world = World() and nothing more: what a build that throws leaves. *)
world_constructed(g) ==
  [g EXCEPT !.platforms = << >>, !.portals = << >>, !.collectibles = << >>,
            !.enemies = << >>, !.powerups = << >>,
            !.foreground_particles = ZeroPool, !.active_particles = 0,
            !.camera = NoCamera]

(* A faulty variant of rebuilt: the level is generated in the world that
   is there, and what that world's registries held is kept. *)
rebuilt_in_place(g, level_number, clock) ==
  [g EXCEPT !.platforms = generate_level(level_number, g.draw).platforms,
            !.portals = generate_level(level_number, g.draw).portals,
            !.active_particles = 0,
            !.current_level = level_number,
            !.player = reset(Px(100), Px(300), clock)]

(* self.world = World(); self.world.generate_level(level_number);
   self.player.reset(100, 300), the clock read at clock. *)
rebuilt(g, level_number, clock) ==
  [g EXCEPT !.platforms = generate_level(level_number, g.draw).platforms,
            !.portals = generate_level(level_number, g.draw).portals,
            !.collectibles = generate_level(level_number, g.draw).collectibles,
            !.enemies = generate_level(level_number, g.draw).enemies,
            !.powerups = generate_level(level_number, g.draw).powerups,
            !.foreground_particles = ZeroPool,
            !.active_particles = 0,
            !.camera = NoCamera,
            !.current_level = level_number,
            !.player = reset(Px(100), Px(300), clock)]

(* The exceptions a call of handle_level_completion meets.  try: where the
   try block throws: "none", "early" (before del self.world), "gap" (after
   del self.world and before self.world is assigned again) or "build"
   (later).  fallback, last: whether the build of the except block and the
   build of its own except block throw. *)
NoFaults == [try |-> "none", fallback |-> FALSE, last |-> FALSE]

(* GameController.handle_level_completion.  After "gap" the except block's
   own del self.world raises AttributeError, so its build is not reached
   and the last build, of level 0, follows.  When the last build throws
   the exception leaves the method. *)
handle_level_completion(g, faults) ==
  IF faults.try = "none"
  THEN [rebuilt(g, g.current_level + 1, g.now + LevelDelay) EXCEPT
          !.now = @ + LevelDelay + FreezeDelay,
          !.handled.completion = "built"]
  ELSE IF faults.try # "gap" /\ ~faults.fallback
  THEN [rebuilt(g, g.current_level, g.now) EXCEPT
          !.handled.completion = "fallback"]
  ELSE IF ~faults.last
  THEN [rebuilt(g, 0, g.now) EXCEPT !.handled.completion = "first"]
  ELSE [world_constructed(g) EXCEPT !.current_level = 0,
                                    !.handled.completion = "escaped"]

(* GameController.update, "Level abgeschlossen". *)
completion_done(g, faults) ==
  IF "level_complete" \in g.events THEN handle_level_completion(g, faults)
  ELSE g

(* GameController.reset_level. *)
reset_level(g) ==
  [rebuilt(g, g.current_level, g.now) EXCEPT !.handled.death = "reset"]

(* GameController.update, "Spieler gestorben": _game_over or reset_level. *)
death_done(g) ==
  IF "player_death" \in g.events /\ g.handled.completion # "escaped"
  THEN IF g.player.lives <= 0
       THEN [g EXCEPT !.active_menu = "game_over",
                      !.handled.death = "game_over"]
       ELSE reset_level(g)
  ELSE g

(* The world and the actor as the handlers of a frame leave them, before
   World.update. *)
NoSnapshot == [taken |-> FALSE]

snapshot(g) ==
  IF g.handled = NotHandled THEN NoSnapshot
  ELSE [taken |-> TRUE, player |-> g.player, platforms |-> g.platforms,
        portals |-> g.portals, collectibles |-> g.collectibles,
        enemies |-> g.enemies, powerups |-> g.powerups,
        active_particles |-> g.active_particles,
        current_level |-> g.current_level]

handlers_done(g) == [g EXCEPT !.after = snapshot(g)]

(* World.update(time_factor, ...) at the end of the frame; a is the pool
   after aging and compaction.  0.05 * dt * 60 is above 1 for every time
   factor, so the random test of the spawn always passes. *)
world_done(g, a, dt, life) ==
  [g EXCEPT !.foreground_particles =
               add_dimension_particle(a.buffer, a.active, life).buffer,
            !.active_particles =
               add_dimension_particle(a.buffer, a.active, life).active,
            !.compacted = [dt |-> dt, before |-> g.active_particles,
                           active |-> a.active, buffer |-> a.buffer],
            !.spawned = [called |-> TRUE, active |-> a.active,
                         buffer |-> a.buffer,
                         returned |->
                           add_dimension_particle(a.buffer, a.active, life).returned],
            !.camera = update_camera(g.camera, dt, g.player.x, g.player.y),
            !.enemies = update_enemies(g.enemies, dt)]

(* The part of GameController.update that runs while the game is on:
   Player.update and the handling of what it returned.  When an exception
   leaves handle_level_completion the rest of the frame is not run. *)
handled_frame(g, tf, dim, faults, on_collect, on_enemy_death) ==
  handlers_done(
    death_done(
      completion_done(
        spawn_on_enemy_death(
          spawn_on_collect(
            powerups_checked(
              player_done(g, update(g.player, tf, g.platforms, g.portals,
                                    g.collectibles, g.enemies, dim, g.now)),
              dim),
            on_collect),
          on_enemy_death),
        faults)))

world_frame(g, tf, life) ==
  IF g.handled.completion = "escaped" THEN g
  ELSE world_done(g, age_particles(g.foreground_particles,
                                   g.active_particles, tf), tf, life)


(***************************************************************************)
(* State                                                                   *)
(***************************************************************************)
VARIABLES
  player,               \* the Player object
  platforms, portals,   \* World.platforms, World.portals
  collectibles, enemies, powerups,
  current_dimension,    \* the dimension passed to update()
  spawn,                \* the position the actor is constructed and reset at
  now,                  \* the wall clock, time.time()
  events,               \* the events returned by the latest Player.update
  frames,               \* Player.update calls and controller frames so far
  given,                \* add_powerup calls made so far
  hist,                 \* history of earlier steps: what was given, emitted, entered
  foreground_particles, \* World.foreground_particles: the pool's buffer
  active_particles,     \* World.active_particles
  compacted,            \* the pool as the World.update that has just returned
                        \* left it after aging and compaction, before the spawn
  wframes,              \* World.update calls made so far
  spawned,              \* the pool the latest _add_dimension_particle call
                        \* was made on, and what the call returned
  current_level,        \* GameController.current_level
  dimension_cooldown,   \* GameController.dimension_cooldown
  difficulty,           \* GameController.settings["difficulty"]
  active_menu,          \* GameController.active_menu: "none" or "game_over"
  frame,                \* the latest GameController.update: its dt, the step
                        \* it passed on, what its handlers did and left
  switched,             \* the frame time since the latest dimension switch
  camera,               \* World.camera_x, camera_y and their targets
  sided                 \* the latest check_collision call and its result

vars == << player, platforms, portals, collectibles, enemies, powerups,
           current_dimension, spawn, now, events, frames, given, hist,
           foreground_particles, active_particles, compacted, wframes,
           spawned, current_level, dimension_cooldown, difficulty,
           active_menu, frame, switched, camera, sided >>

actor_vars == << player, events, frames, given, hist, now >>
registry_vars == << platforms, portals, collectibles, enemies, powerups >>
particle_vars == << foreground_particles, active_particles, compacted, wframes,
                    spawned, camera >>
controller_vars == << current_level, dimension_cooldown, difficulty,
                      active_menu, frame, switched, sided >>

(* Bounds of the model *)
MaxFrames == 4
MaxClock == 25
MaxGiven == 2
MaxWorldFrames == 2
MaxGameFrames == 3
MaxLevel == 4
MaxSide == 3
TickStep == Wall(1) \div 2

(* The time steps handed to update(): GameController.update passes its
   time factor, 0.5 in dimension 3 and 1.0 otherwise (normal difficulty). *)
DtSet == {Sec(1) \div 2, Sec(1)}

NoEmit == -1

(* What the history keeps of the entry of the latest update() or reset():
   whether the resolver started with a vertical velocity >= 0, the visible
   platforms the actor's rectangle and its ground probe overlapped then, and
   the jump count the call found. *)
NoEntry == [falling |-> FALSE, contacts |-> {}, probe |-> {}, jump_count |-> 0]

resolver_entry(q, plats, dim) ==
  [falling |-> q.velocity_y >= 0,
   contacts |-> {i \in 1..Len(plats) :
                   /\ isActiveIn(plats[i].dimension_visible, dim)
                   /\ colliderect(player_rect(q), get_rect(plats[i]))},
   probe |-> {i \in 1..Len(plats) :
                /\ isActiveIn(plats[i].dimension_visible, dim)
                /\ colliderect(ground_probe(q), get_rect(plats[i]))},
   jump_count |-> q.jump_count]

InitHist ==
  [jump_given |-> 0, jump_elapsed |-> 0, last_emit |-> NoEmit,
   last_reset |-> 0, rise |-> FALSE, rise_y |-> 0, entry |-> NoEntry]

(* Where the actor is constructed in the mirror level, and the dimension. *)
StartPositions ==
  { [x |-> 160, y |-> 611, dim |-> 1],
    [x |-> 400, y |-> 441, dim |-> 2] }

(* At the left edge of Portal(1080, 140): two pixels of overlap. *)
PortalStart == [x |-> 1042, y |-> 141, dim |-> 1]
PowerupStart == [x |-> 100, y |-> 611, dim |-> 1]
(* GameController.__init__: Player(100, 300). *)
ControllerStart == [x |-> 100, y |-> 300, dim |-> 1]

InitActorAt(s, level) ==
  /\ spawn = [x |-> Px(s.x), y |-> Px(s.y)]
  /\ now = 0
  /\ player = reset(Px(s.x), Px(s.y), 0)
  /\ current_dimension = s.dim
  /\ platforms = level.platforms
  /\ portals = level.portals
  /\ collectibles = level.collectibles
  /\ enemies = level.enemies
  /\ powerups = level.powerups
  /\ events = {}
  /\ frames = 0
  /\ given = 0
  /\ hist = InitHist

(* No World.update has just returned. *)
NoCompaction == [dt |-> 0, before |-> 0, active |-> 0, buffer |-> ZeroPool]

(* No update has run yet. *)
NoFrame == [ran |-> FALSE, dt |-> 0, step |-> 0, dimension |-> 0,
            level_before |-> 0, faults |-> NoFaults, draw |-> NoDraw,
            handled |-> NotHandled, after |-> NoSnapshot]

(* No dimension switch has been made yet. *)
NoSwitch == [any |-> FALSE, elapsed |-> 0, requested |-> FALSE]

(* No check_collision call has been made on its own. *)
NoSide == [called |-> FALSE]

InitControllerAt(level_number, setting) ==
  /\ sided = NoSide
  /\ current_level = level_number
  /\ dimension_cooldown = 0
  /\ difficulty = setting
  /\ active_menu = "none"
  /\ frame = NoFrame
  /\ switched = NoSwitch

(* No _add_dimension_particle call has just returned. *)
NoSpawn == [called |-> FALSE, active |-> 0, buffer |-> ZeroPool,
            returned |-> "None"]

InitNoParticles ==
  /\ camera = NoCamera
  /\ foreground_particles = ZeroPool
  /\ active_particles = 0
  /\ compacted = NoCompaction
  /\ wframes = 0
  /\ spawned = NoSpawn

Init ==
  /\ \E s \in StartPositions : InitActorAt(s, MirrorLevel)
  /\ InitNoParticles
  /\ InitControllerAt(1, 1)

(***************************************************************************)
(* Operations of the actor                                                 *)
(***************************************************************************)
Jump ==
  /\ player' = jump(player)
  /\ hist' = IF player.on_ground /\ player.jump_count < player.max_jumps
             THEN [hist EXCEPT !.rise = TRUE, !.rise_y = player.y]
             ELSE hist
  /\ UNCHANGED << events, frames, given, now, current_dimension, spawn >>
  /\ UNCHANGED registry_vars
  /\ UNCHANGED particle_vars
  /\ UNCHANGED controller_vars

MoveLeft ==
  /\ player' = move_left(player)
  /\ UNCHANGED << events, frames, given, hist, now, current_dimension, spawn >>
  /\ UNCHANGED registry_vars
  /\ UNCHANGED particle_vars
  /\ UNCHANGED controller_vars

MoveRight ==
  /\ player' = move_right(player)
  /\ UNCHANGED << events, frames, given, hist, now, current_dimension, spawn >>
  /\ UNCHANGED registry_vars
  /\ UNCHANGED particle_vars
  /\ UNCHANGED controller_vars

StopHorizontal ==
  /\ player' = stop_horizontal_movement(player)
  /\ UNCHANGED << events, frames, given, hist, now, current_dimension, spawn >>
  /\ UNCHANGED registry_vars
  /\ UNCHANGED particle_vars
  /\ UNCHANGED controller_vars

(* What a call of update_powerups(dt) adds to the history. *)
hist_elapsed(h, dt) ==
  IF h.jump_given >= 1
  THEN [h EXCEPT !.jump_elapsed = Min(@ + dt, Duration("jump"))]
  ELSE h

(* What a call of update(dt) adds to the history; r is what it returned. *)
hist_update(h, p, dt, r, clock, plats, dim) ==
  IF p.is_dead THEN h
  ELSE [hist_elapsed(h, dt) EXCEPT
          !.entry = resolver_entry(integrate(p, dt), plats, dim),
          !.rise = @ /\ ~(integrate(p, dt).velocity_y > 0),
          !.rise_y = IF h.rise /\ integrate(p, dt).velocity_y > 0 THEN 0 ELSE @,
          !.last_emit = IF "level_complete" \in r.events THEN clock ELSE @]

(* The state after update() has returned r. *)
Updated(r, dt) ==
  /\ player' = r.player
  /\ events' = r.events
  /\ collectibles' = r.collectibles
  /\ enemies' = r.enemies
  /\ now' = IF r.slept THEN now + PortalSleep ELSE now
  /\ hist' = hist_update(hist, player, dt, r, now, platforms, current_dimension)

Update(dt) ==
  /\ frames < MaxFrames
  /\ Updated(update(player, dt, platforms, portals, collectibles, enemies,
                    current_dimension, now), dt)
  /\ frames' = frames + 1
  /\ UNCHANGED << given, current_dimension, spawn, platforms, portals, powerups >>
  /\ UNCHANGED particle_vars
  /\ UNCHANGED controller_vars

AddPowerup(t) ==
  /\ given < MaxGiven
  /\ player' = add_powerup(player, t, Duration(t))
  /\ given' = given + 1
  /\ hist' = IF t = "jump"
             THEN [hist EXCEPT !.jump_given = Min(@ + 1, 2)]
             ELSE hist
  /\ UNCHANGED << events, frames, now, current_dimension, spawn >>
  /\ UNCHANGED registry_vars
  /\ UNCHANGED particle_vars
  /\ UNCHANGED controller_vars

UpdatePowerups(dt) ==
  /\ player' = update_powerups(player, dt)
  /\ hist' = hist_elapsed(hist, dt)
  /\ UNCHANGED << events, frames, given, now, current_dimension, spawn >>
  /\ UNCHANGED registry_vars
  /\ UNCHANGED particle_vars
  /\ UNCHANGED controller_vars

Reset ==
  /\ player' = reset(spawn.x, spawn.y, now)
  /\ hist' = [hist EXCEPT !.jump_given = 0, !.jump_elapsed = 0,
                          !.last_reset = now,
                          !.rise = FALSE, !.rise_y = 0,
                          !.entry = [NoEntry EXCEPT !.jump_count = player.jump_count]]
  /\ UNCHANGED << events, frames, given, now, current_dimension, spawn >>
  /\ UNCHANGED registry_vars
  /\ UNCHANGED particle_vars
  /\ UNCHANGED controller_vars

(* Wall-clock time passing between calls. *)
Tick ==
  /\ now + TickStep <= MaxClock
  /\ now' = now + TickStep
  /\ UNCHANGED << player, events, frames, given, hist, current_dimension, spawn >>
  /\ UNCHANGED registry_vars
  /\ UNCHANGED particle_vars
  /\ UNCHANGED controller_vars

Next ==
  \/ Jump
  \/ MoveLeft
  \/ MoveRight
  \/ StopHorizontal
  \/ \E dt \in DtSet : Update(dt)
  \/ Reset

Spec == Init /\ [][Next]_vars

(***************************************************************************)
(* Properties of the actor's movement and collision resolution (Spec)      *)
(***************************************************************************)
(* C2 as stated: a landing resolution leaves jump_count at 0, and nothing
   but a landing resolution ever lowers jump_count. *)
C2_OnlyLandingLowersJumpCount ==
  [][LET landing == frames' = frames + 1 /\ ~player.is_dead /\ player'.on_ground
     IN /\ landing => player'.jump_count = 0
        /\ player'.jump_count < player.jump_count => landing]_vars

(* C2, amended: a landing resolution leaves jump_count at 0, and jump_count
   is lowered only by a landing resolution or by reset(), both to 0. *)
C2_OnlyLandingOrResetLowersJumpCount ==
  [][LET landing == frames' = frames + 1 /\ ~player.is_dead /\ player'.on_ground
     IN /\ landing => player'.jump_count = 0
        /\ player'.jump_count < player.jump_count =>
             /\ player'.jump_count = 0
             /\ landing \/ Reset]_vars

(* An update that found jumps counted has landed the actor. *)
C2_Witness ==
  /\ frames > 0
  /\ player.on_ground
  /\ hist.entry.jump_count > 0
  /\ player.jump_count = 0

(* C3 as stated: when the resolver started with vertical velocity >= 0, the
   actor's rectangle overlaps no dimension-visible platform at its return. *)
C3_NoOverlapAfterResolve ==
  hist.entry.falling =>
    \A i \in 1..Len(platforms) :
      isActiveIn(platforms[i].dimension_visible, current_dimension) =>
        ~colliderect(player_rect(player), get_rect(platforms[i]))

(* C3, amended: when the resolver started with vertical velocity >= 0 and P
   is the only dimension-visible platform the actor overlapped, with its
   ground probe too (the landing case), the actor's rectangle does not
   overlap P at the resolver's return. *)
C3_NoOverlapAfterLanding ==
  hist.entry.falling =>
    \A i \in 1..Len(platforms) :
      (hist.entry.contacts = {i} /\ i \in hist.entry.probe) =>
        ~colliderect(player_rect(player), get_rect(platforms[i]))

(* The landing case has happened: one platform under the falling actor. *)
C3_Witness ==
  /\ hist.entry.falling
  /\ \E i \in 1..Len(platforms) : hist.entry.contacts = {i} /\ i \in hist.entry.probe
  /\ player.on_ground
  /\ frames > 1

(* C8 as stated: a jump from rest makes jump_count 1, and the actor is not
   landed again before its vertical velocity has been positive. *)
C8_NoLandingWhileRising ==
  [][/\ (Jump /\ player.on_ground) => player'.jump_count = 1
     /\ hist'.rise => ~player'.on_ground]_vars

(* C8, amended: a jump from rest makes jump_count 1, and before its vertical
   velocity has been positive the actor is landed again only on a platform
   higher than the place it jumped from (the "bottom" resolution of the side
   test snaps a rising actor onto a platform it runs into). *)
C8_NoLandingBackWhileRising ==
  [][/\ (Jump /\ player.on_ground) => player'.jump_count = 1
     /\ (hist'.rise /\ player'.on_ground) => player'.y < hist'.rise_y]_vars

(* The actor has jumped from rest and has been landed while still rising. *)
C8_Witness ==
  /\ hist.rise
  /\ player.on_ground
  /\ player.y < hist.rise_y


(* The actor walking at a portal, with the wall clock running. *)
InitPortal ==
  /\ InitActorAt(PortalStart, MirrorLevel)
  /\ InitNoParticles
  /\ InitControllerAt(1, 1)

NextPortal ==
  \/ MoveLeft
  \/ MoveRight
  \/ StopHorizontal
  \/ \E dt \in DtSet : Update(dt)
  \/ Reset
  \/ Tick

SpecPortal == InitPortal /\ [][NextPortal]_vars

(***************************************************************************)
(* Properties of the portal trigger (SpecPortal)                           *)
(***************************************************************************)
(* C6: an update() that runs less than 1 s after the previous portal
   trigger emits no level_complete and leaves last_portal_time alone, so two
   level_complete events are never less than 1 s apart. *)
C6_PortalCooldown ==
  [][(/\ frames' = frames + 1
      /\ hist.last_emit # NoEmit
      /\ now - hist.last_emit < PortalCooldown)
     => /\ "level_complete" \notin events'
        /\ player'.last_portal_time = player.last_portal_time]_vars

(* An update() has run on the portal within 1 s of a trigger, silently. *)
C6_Witness ==
  /\ hist.last_emit # NoEmit
  /\ now - hist.last_emit < PortalCooldown
  /\ "level_complete" \notin events
  /\ \E i \in 1..Len(portals) : portal_overlap(player, portals[i])

(* C7 as stated: an update() of a live actor that overlaps a portal, with no
   portal trigger in the preceding 1 s or none at all, emits level_complete
   and sets level_completed. *)
C7_PortalTriggers ==
  [][(/\ frames' = frames + 1
      /\ ~player.is_dead
      /\ \E i \in 1..Len(portals) : portal_overlap(player', portals[i])
      /\ hist.last_emit = NoEmit \/ now - hist.last_emit >= PortalCooldown)
     => /\ "level_complete" \in events'
        /\ player'.level_completed]_vars

(* C7, amended: an update() of a live actor that overlaps a portal, with no
   portal trigger and no construction or reset() of the actor in the
   preceding 1 s, emits level_complete and sets level_completed. *)
C7_PortalTriggersAfterCooldown ==
  [][(/\ frames' = frames + 1
      /\ ~player.is_dead
      /\ \E i \in 1..Len(portals) : portal_overlap(player', portals[i])
      /\ hist.last_emit = NoEmit \/ now - hist.last_emit >= PortalCooldown
      /\ now - hist.last_reset >= PortalCooldown)
     => /\ "level_complete" \in events'
        /\ player'.level_completed]_vars

(* A portal has been triggered a second or more after the actor's reset. *)
C7_Witness ==
  /\ "level_complete" \in events
  /\ player.level_completed
  /\ hist.last_emit - hist.last_reset >= PortalCooldown


(* The actor's powerup bookkeeping: powerups of two types are handed over,
   frames run at the normal time factor and the timers are also aged in
   steps of five seconds. *)
GivenTypes == {"jump", "invincibility"}

PowerupDtSet == {Sec(5)}

FrameDt == Sec(1)

InitPowerup ==
  /\ InitActorAt(PowerupStart, MirrorLevel)
  /\ InitNoParticles
  /\ InitControllerAt(1, 1)

NextPowerup ==
  \/ Jump
  \/ \E t \in GivenTypes : AddPowerup(t)
  \/ \E dt \in PowerupDtSet : UpdatePowerups(dt)
  \/ Update(FrameDt)
  \/ Reset

SpecPowerup == InitPowerup /\ [][NextPowerup]_vars

(***************************************************************************)
(* Properties of the actor's jump and powerup bookkeeping (SpecPowerup)    *)
(***************************************************************************)
(* C1 as stated: in every reachable state jump_count is at most max_jumps. *)
C1_JumpCountWithinLimit == player.jump_count <= player.max_jumps

(* C1, amended: jump_count is at most max_jumps, except in the state left by
   the jump powerup running out after three jumps in the air: there
   jump_count is 3, max_jumps is back to 2 and the powerup is inactive. *)
C1_JumpCountWithinLimitOrExpired ==
  \/ player.jump_count <= player.max_jumps
  \/ /\ player.jump_count = 3
     /\ player.max_jumps = 2
     /\ ~player.active_powerups["jump"]
     /\ "jump" \notin DOMAIN player.powerup_timers

(* The triple jump has been used up while the powerup runs, frames included. *)
C1_Witness ==
  /\ player.jump_count = 3
  /\ player.max_jumps = 3
  /\ frames > 0

(* C4: add_powerup(X, t2) makes the remaining timer of X exactly t1 + t2
   when X has a running timer t1, and t2 when it has none. *)
C4_AddPowerupAdditive ==
  [][\A t \in PowerupTypes :
       AddPowerup(t) =>
         player'.powerup_timers[t] =
           (IF t \in DOMAIN player.powerup_timers
            THEN player.powerup_timers[t] ELSE 0) + Duration(t)]_vars

(* A timer that was extended while it was running, and then aged. *)
C4_Witness ==
  \E t \in DOMAIN player.powerup_timers :
    /\ player.powerup_timers[t] > Duration(t)
    /\ player.powerup_timers[t] < 2 * Duration(t)

(* C5: after one "jump" powerup and no further one, max_jumps is 3 and the
   powerup is active while the time passed to update_powerups sums to less
   than 15 s; from 15 s on max_jumps is 2, the flag is false and the timer
   entry is gone. *)
C5_JumpPowerupLifetime ==
  hist.jump_given = 1 =>
    IF hist.jump_elapsed < Duration("jump")
    THEN /\ player.max_jumps = 3
         /\ player.active_powerups["jump"]
         /\ "jump" \in DOMAIN player.powerup_timers
    ELSE /\ player.max_jumps = 2
         /\ ~player.active_powerups["jump"]
         /\ "jump" \notin DOMAIN player.powerup_timers

(* The single jump powerup has run its 15 s and is gone. *)
C5_Witness ==
  /\ hist.jump_given = 1
  /\ hist.jump_elapsed = Duration("jump")
  /\ player.max_jumps = 2
  /\ ~player.active_powerups["jump"]


(* World.update(dt, player_x, player_y, current_dimension): particles are
   aged and compacted, one particle is spawned (0.05 * dt * 60 is at least
   1 for every dt of DtSet, so the random test always passes), and the
   enemies patrol. *)
WorldUpdate(dt, life) ==
  /\ wframes < MaxWorldFrames
  /\ LET a == age_particles(foreground_particles, active_particles, dt)
         n == add_dimension_particle(a.buffer, a.active, life)
     IN /\ compacted' = [dt |-> dt, before |-> active_particles,
                          active |-> a.active, buffer |-> a.buffer]
        /\ spawned' = [called |-> TRUE, active |-> a.active,
                        buffer |-> a.buffer, returned |-> n.returned]
        /\ foreground_particles' = n.buffer
        /\ active_particles' = n.active
  /\ camera' = update_camera(camera, dt, player.x, player.y)
  /\ enemies' = update_enemies(enemies, dt)
  /\ wframes' = wframes + 1
  /\ UNCHANGED << platforms, portals, collectibles, powerups, current_dimension, spawn >>
  /\ UNCHANGED actor_vars
  /\ UNCHANGED controller_vars

AddDimensionParticle(life) ==
  /\ LET n == add_dimension_particle(foreground_particles, active_particles, life)
     IN /\ foreground_particles' = n.buffer
        /\ active_particles' = n.active
        /\ spawned' = [called |-> TRUE, active |-> active_particles,
                        buffer |-> foreground_particles,
                        returned |-> n.returned]
  /\ compacted' = NoCompaction
  /\ UNCHANGED << wframes, current_dimension, spawn, camera >>
  /\ UNCHANGED registry_vars
  /\ UNCHANGED actor_vars
  /\ UNCHANGED controller_vars

(* World.generate_level: _clear_level empties the registries and the
   active count, then the level's objects are placed. *)
GenerateLevel(level_number, d) ==
  /\ LET level == generate_level(level_number, d)
     IN /\ platforms' = level.platforms
        /\ portals' = level.portals
        /\ collectibles' = level.collectibles
        /\ enemies' = level.enemies
        /\ powerups' = level.powerups
  /\ active_particles' = 0
  /\ compacted' = NoCompaction
  /\ spawned' = NoSpawn
  /\ UNCHANGED << foreground_particles, wframes, current_dimension, spawn,
                  camera >>
  /\ UNCHANGED actor_vars
  /\ UNCHANGED controller_vars

(* The world on its own: frames, direct particle spawns, level changes. *)
InitWorld ==
  /\ InitActorAt(ControllerStart, TutorialLevel)
  /\ InitNoParticles
  /\ InitControllerAt(0, 1)

NextWorld ==
  \/ \E dt \in DtSet, life \in Lifetimes : WorldUpdate(dt, life)
  \/ \E life \in Lifetimes : AddDimensionParticle(life)
  \/ \E n \in {0, 1} : GenerateLevel(n, NoDraw)

SpecWorld == InitWorld /\ [][NextWorld]_vars

(***************************************************************************)
(* Properties of the particle pool (SpecWorld)                             *)
(***************************************************************************)
(* C9: in every reachable state of the world, active_particles is at least
   0 and at most particle_pool_size. *)
C9_ActiveParticlesInRange ==
  /\ 0 <= active_particles
  /\ active_particles <= particle_pool_size

(* The pool is full, and World.update has run. *)
C9_Witness ==
  /\ active_particles = particle_pool_size
  /\ wframes > 0

(* C10: right after the aging and compaction of World.update, before the
   spawn, active_particles is the number of previously active particles
   whose aged lifetime is above 0, and every entry of the live prefix has a
   lifetime above 0. *)
C10_CompactionKeepsSurvivors ==
  [][wframes' = wframes + 1 =>
       /\ compacted'.active =
            Cardinality({i \in 1..active_particles :
                           foreground_particles[i].life - compacted'.dt > 0})
       /\ \A i \in 1..compacted'.active : compacted'.buffer[i].life > 0]_vars

(* A World.update in which some particles died and some survived. *)
C10_Witness ==
  /\ compacted.active > 0
  /\ compacted.active < compacted.before


(* C11 as stated: a spawn attempt on a full pool leaves active_particles
   and every record of the buffer unchanged, raises nothing, and reports
   the failure to its caller by returning false. *)
C11_FullPoolSpawnReportsFailure ==
  (spawned.called /\ spawned.active = particle_pool_size) =>
     /\ active_particles = spawned.active
     /\ foreground_particles = spawned.buffer
     /\ spawned.returned = "False"

(* C11: right after a spawn attempt on a full pool, active_particles and
   every record of the buffer are what they were before the call, and the
   call has returned None, the value a successful spawn returns too. *)
C11_FullPoolSpawnIsNoOp ==
  /\ spawned.called => spawned.returned = "None"
  /\ (spawned.called /\ spawned.active = particle_pool_size) =>
        /\ active_particles = spawned.active
        /\ foreground_particles = spawned.buffer

(* A spawn attempt has just been made on a full pool. *)
C11_Witness ==
  /\ spawned.called
  /\ spawned.active = particle_pool_size

(***************************************************************************)
(* The running game: handle_events and update of GameController            *)
(***************************************************************************)
(* The frame times clock.tick hands to update: a tenth and a half of a
   second. *)
FrameDts == {Sec(1) \div 10, Sec(1) \div 2}

(* A frame time on the wall clock. *)
wall(dt) == (dt * Wall(1)) \div Sec(1)

(* The keys held down at a handle_events: none, right, or the dimension
   key. *)
KeySets == { {}, {"move_right"}, {"dimension_change"} }

(* The particle lifetime drawn in the frames of the game: 2 s, which lies
   in the range of every dimension. *)
GameLifetimes == {Sec(2)}

(* The types random.choice draws in spawn_powerup, and no spawn. *)
SpawnDraws == {"none", "invincibility"}

(* The game as the handlers of a frame find it. *)
Game ==
  [player |-> player, platforms |-> platforms, portals |-> portals,
   collectibles |-> collectibles, enemies |-> enemies, powerups |-> powerups,
   foreground_particles |-> foreground_particles,
   active_particles |-> active_particles,
   compacted |-> compacted, spawned |-> spawned, camera |-> camera,
   current_level |-> current_level, active_menu |-> active_menu,
   now |-> now, events |-> {}, draw |-> NoDraw,
   handled |-> NotHandled, after |-> NoSnapshot]

(* Three ways the random numbers of a build of level n may fall: the
   platforms from the top down, from the bottom up with some of them
   tagged, and all at the lowest height in one column. *)
DrawKinds == {"down", "up", "row"}

drawn(n, kind) ==
  [platforms |->
     [i \in 1..(5 + n) |->
        [x |-> IF kind = "row" THEN 100
               ELSE Min(100 + 100 * (i - 1), SCREEN_WIDTH + n * 100 - 200),
         y |-> IF kind = "row" THEN SCREEN_HEIGHT - 100
               ELSE IF kind = "down" THEN Min(150 + 50 * (i - 1), SCREEN_HEIGHT - 100)
               ELSE Max(SCREEN_HEIGHT - 100 - 50 * (i - 1), 150),
         width |-> IF kind = "row" THEN 100
                   ELSE IF kind = "down" THEN 100 + 10 * i ELSE 250,
         tag |-> IF kind = "up" /\ i % 2 = 0 THEN (i % 3) + 1 ELSE -1]],
   enemies |->
     [i \in 1..n |-> [pick |-> IF kind = "row" THEN 5 + n ELSE i,
                      low |-> i % 2 = 1]],
   collectibles |->
     [i \in 1..(3 + n) |-> [pick |-> i, low |-> i % 2 = 0]]]

LevelDraws(n) == IF n < 3 THEN {NoDraw} ELSE {drawn(n, kind) : kind \in DrawKinds}

(* The draws of a frame at level n: reset_level builds level n again, and
   handle_level_completion level n + 1. *)
DrawsAt(n) == LevelDraws(n + 1)

(* A faulty variant of the test of the dimension key: the cooldown is not
   looked at. *)
may_switch_always(keys, cooldown) == "dimension_change" \in keys

(* handle_events: the test of the dimension key. *)
may_switch(keys, cooldown) == "dimension_change" \in keys /\ cooldown <= 0

(* handle_events: the movement keys. *)
steer(p, keys) ==
  IF "move_left" \in keys THEN move_left(p)
  ELSE IF "move_right" \in keys THEN move_right(p)
  ELSE stop_horizontal_movement(p)

(* GameController.handle_events with the keys held down, once the game has
   been started and is not paused; the game-over menu does not stop the
   keys from being read. *)
HandleEvents(keys) ==
  /\ frame.handled.completion # "escaped"
  /\ player' = IF "jump" \in keys THEN jump(steer(player, keys))
               ELSE steer(player, keys)
  /\ hist' = IF /\ "jump" \in keys
                /\ player.on_ground
                /\ player.jump_count < player.max_jumps
             THEN [hist EXCEPT !.rise = TRUE, !.rise_y = player.y]
             ELSE hist
  /\ IF may_switch(keys, dimension_cooldown)
     THEN /\ current_dimension' = switch_dimension(current_dimension)
          /\ dimension_cooldown' = DIMENSION_CHANGE_COOLDOWN
          /\ switched' = [any |-> TRUE, elapsed |-> 0, requested |-> TRUE]
     ELSE /\ UNCHANGED << current_dimension, dimension_cooldown >>
          /\ switched' = [switched EXCEPT
                            !.requested = "dimension_change" \in keys]
  /\ UNCHANGED << events, frames, given, now, spawn >>
  /\ UNCHANGED << current_level, difficulty, active_menu, frame, sided >>
  /\ UNCHANGED registry_vars
  /\ UNCHANGED particle_vars

(* What a frame of the running game adds to the history. *)
hist_frame(h, p, tf, g, clock, plats, dim) ==
  IF g.handled.completion # "none" \/ g.handled.death = "reset"
  THEN [h EXCEPT !.jump_given = 0, !.jump_elapsed = 0,
                 !.last_reset = g.player.last_portal_time,
                 !.rise = FALSE, !.rise_y = 0,
                 !.entry = [NoEntry EXCEPT !.jump_count = p.jump_count],
                 !.last_emit = IF "level_complete" \in g.events
                               THEN clock ELSE @]
  ELSE hist_update(h, p, tf, g, clock, plats, dim)

(* The state after a frame of the running game has ended in g; faults are
   the exceptions handle_level_completion met, if it was called, and
   g.draw the random numbers of the builds, if there were any. *)
Framed(g, dt, tf, faults) ==
  /\ player' = g.player
  /\ platforms' = g.platforms
  /\ portals' = g.portals
  /\ collectibles' = g.collectibles
  /\ enemies' = g.enemies
  /\ powerups' = g.powerups
  /\ foreground_particles' = g.foreground_particles
  /\ active_particles' = g.active_particles
  /\ compacted' = g.compacted
  /\ spawned' = g.spawned
  /\ camera' = g.camera
  /\ current_level' = g.current_level
  /\ active_menu' = g.active_menu
  /\ now' = g.now
  /\ events' = g.events
  /\ frame' = [ran |-> TRUE, dt |-> dt, step |-> tf,
               dimension |-> current_dimension,
               level_before |-> current_level,
               faults |-> IF g.handled.completion = "none" THEN NoFaults
                          ELSE faults,
               draw |-> IF g.handled = NotHandled THEN NoDraw ELSE g.draw,
               handled |-> g.handled, after |-> g.after]
  /\ hist' = hist_frame(hist, player, tf, g, now + wall(dt), platforms,
                        current_dimension)

(* GameController.update(dt): the cooldown, then nothing more under a menu,
   and otherwise Player.update with the time factor, the powerups, the
   handling of level_complete and player_death, and World.update with the
   time factor. *)
ControllerUpdate(dt, life, faults, draw, on_collect, on_enemy_death) ==
  /\ frames < MaxGameFrames
  /\ frame.handled.completion # "escaped"
  /\ frames' = frames + 1
  /\ dimension_cooldown' = IF dimension_cooldown > 0
                           THEN dimension_cooldown - dt
                           ELSE dimension_cooldown
  /\ switched' = [switched EXCEPT
                    !.elapsed = Min(@ + dt, DIMENSION_CHANGE_COOLDOWN),
                    !.requested = FALSE]
  /\ IF active_menu # "none"
     THEN /\ now' = now + wall(dt)
          /\ UNCHANGED << player, events, hist, current_level, active_menu,
                          frame, wframes >>
          /\ UNCHANGED registry_vars
          /\ UNCHANGED << foreground_particles, active_particles, compacted,
                          spawned, camera >>
     ELSE /\ Framed(world_frame(
                      handled_frame([Game EXCEPT !.now = now + wall(dt),
                                                 !.draw = draw],
                                    time_factor(current_dimension, difficulty),
                                    current_dimension, faults, on_collect,
                                    on_enemy_death),
                      time_factor(current_dimension, difficulty), life),
                    dt, time_factor(current_dimension, difficulty), faults)
          /\ UNCHANGED wframes
  /\ UNCHANGED << given, current_dimension, spawn, difficulty, sided >>

(* Situations of a running game, a second after the latest reset of the
   actor: at the portal of the tutorial level, on a collectible there,
   beside and above an enemy of the mirror level, falling out of the
   level beyond the floor, at the portal of the mirror level, and on the
   powerup of the time-warp level. *)
GameStarts ==
  { [level |-> 0, x |-> 730, y |-> 190, vy |-> 0, lives |-> 3, difficulty |-> 1],
    [level |-> 0, x |-> 730, y |-> 190, vy |-> 0, lives |-> 3, difficulty |-> 0],
    [level |-> 0, x |-> 340, y |-> 490, vy |-> 0, lives |-> 3, difficulty |-> 2],
    [level |-> 1, x |-> 415, y |-> 440, vy |-> 0, lives |-> 3, difficulty |-> 1],
    [level |-> 1, x |-> 415, y |-> 440, vy |-> 0, lives |-> 1, difficulty |-> 1],
    [level |-> 1, x |-> 455, y |-> 412, vy |-> 2, lives |-> 3, difficulty |-> 1],
    [level |-> 1, x |-> 1400, y |-> 995, vy |-> 10, lives |-> 2, difficulty |-> 1],
    [level |-> 1, x |-> 1080, y |-> 140, vy |-> 0, lives |-> 3, difficulty |-> 1],
    [level |-> 2, x |-> 300, y |-> 350, vy |-> 0, lives |-> 3, difficulty |-> 1] }

InitGameAt(s) ==
  /\ spawn = [x |-> Px(100), y |-> Px(300)]
  /\ now = PortalCooldown
  /\ player = [reset(Px(s.x), Px(s.y), 0) EXCEPT !.velocity_y = Px(s.vy),
                                                  !.lives = s.lives]
  /\ current_dimension = 1
  /\ platforms = generate_level(s.level, NoDraw).platforms
  /\ portals = generate_level(s.level, NoDraw).portals
  /\ collectibles = generate_level(s.level, NoDraw).collectibles
  /\ enemies = generate_level(s.level, NoDraw).enemies
  /\ powerups = generate_level(s.level, NoDraw).powerups
  /\ events = {}
  /\ frames = 0
  /\ given = 0
  /\ hist = InitHist
  /\ InitNoParticles
  /\ InitControllerAt(s.level, s.difficulty)

(* The running game holds the actor with all its lives: Player.reset, which
   every reset_level and level change calls, sets lives to
   PLAYER_STARTING_LIVES. *)
InitGame ==
  \E s \in GameStarts : InitGameAt([s EXCEPT !.lives = PLAYER_STARTING_LIVES])

NextGame ==
  \/ \E keys \in KeySets : HandleEvents(keys)
  \/ \E dt \in FrameDts, life \in GameLifetimes,
        draw \in DrawsAt(current_level),
        on_collect \in SpawnDraws, on_enemy_death \in SpawnDraws :
       ControllerUpdate(dt, life, NoFaults, draw, on_collect, on_enemy_death)

SpecGame == InitGame /\ [][NextGame]_vars

(***************************************************************************)
(* The dimension gate of the resolver (SpecGate)                           *)
(***************************************************************************)
(* The values of Platform.dimension_visible: -1 (all dimensions) and the
   dimensions.  The level builders write -1, 1, 2 and 3; the attribute is
   public and 4 is a dimension switch_dimension reaches. *)
Tags == {-1} \cup (1..MAX_DIMENSIONS)

(* A platform as _generate_random_level places one, with the given tag. *)
GateLevel(tag) ==
  [platforms |-> << Floor, PlatformIn(300, 450, 100, 20, tag) >>,
   collectibles |-> << >>, enemies |-> << >>, portals |-> << >>,
   powerups |-> << >>]

(* On top of the tagged platform, and at its left edge with two pixels of
   overlap. *)
GateStarts == { [x |-> 330, y |-> 390], [x |-> 262, y |-> 420] }

InitGate ==
  /\ \E s \in GateStarts, tag \in Tags, dim \in 1..MAX_DIMENSIONS :
        InitActorAt([x |-> s.x, y |-> s.y, dim |-> dim], GateLevel(tag))
  /\ InitNoParticles
  /\ InitControllerAt(3, 1)

NextGate ==
  \/ MoveLeft
  \/ MoveRight
  \/ StopHorizontal
  \/ \E dt \in DtSet : Update(dt)

SpecGate == InitGate /\ [][NextGate]_vars

(* The platforms whose tag is -1 or the dimension, with the tag taken off. *)
GatedIn(plats, dimension) ==
  LET open(pl) == pl.dimension_visible = -1 \/ pl.dimension_visible = dimension
      kept == SelectSeq(plats, open)
  IN [i \in DOMAIN kept |-> [kept[i] EXCEPT !.dimension_visible = -1]]

(* C12: for every platform tag in {-1, 1, 2, 3, 4} and every dimension in
   1..4, update() moves the actor exactly as it would if the registry held
   only the platforms whose tag is -1 or the active dimension, each of them
   solid: a platform takes part in the resolution iff its tag is -1 or the
   dimension, and a gated-out platform changes none of x, y, velocity_x,
   velocity_y, on_ground and jump_count. *)
C12_DimensionGate ==
  [][frames' = frames + 1 =>
       \E dt \in DtSet :
         LET q == update(player, dt, GatedIn(platforms, current_dimension),
                         portals, collectibles, enemies, current_dimension,
                         now).player
         IN /\ player'.x = q.x
            /\ player'.y = q.y
            /\ player'.velocity_x = q.velocity_x
            /\ player'.velocity_y = q.velocity_y
            /\ player'.on_ground = q.on_ground
            /\ player'.jump_count = q.jump_count]_vars

(* An update has left the actor's rectangle inside a platform that is gated
   out. *)
C12_Witness ==
  /\ frames > 0
  /\ \E i \in 1..Len(platforms) :
        /\ platforms[i].dimension_visible # -1
        /\ platforms[i].dimension_visible # current_dimension
        /\ colliderect(player_rect(player), get_rect(platforms[i]))

(***************************************************************************)
(* The time step of a frame (SpecGame)                                     *)
(***************************************************************************)
(* The time factor of spec section 6, in tenths: 0.9, 1.0 or 1.1 by
   difficulty, halved in dimension 3. *)
scaling(dimension, setting) ==
  (IF setting = 0 THEN 9 ELSE IF setting = 2 THEN 11 ELSE 10)
    * (IF dimension = DIMENSION_TIME_SLOW THEN 1 ELSE 2)

(* C13: the time step GameController.update passes to Player.update and
   World.update in a frame is the frame's elapsed dt multiplied by the time
   factor (0.9, 1.0 or 1.1 by difficulty, halved in dimension 3), so that
   the simulated time of a frame is proportional to its dt. *)
C13_StepIsScaledFrameTime ==
  frame.ran =>
    frame.step * 20 = frame.dt * scaling(frame.dimension, difficulty)

(* Two frames of different dt have been run: the latest one took half a
   second. *)
C13_Witness ==
  /\ frame.ran
  /\ frame.dt = Sec(1) \div 2
  /\ frames > 1

(***************************************************************************)
(* Deaths and invincibility of the actor (SpecActor)                       *)
(***************************************************************************)
(* The actor alone in the situations of the running game: update with the
   time steps of the controller, the movement keys, and an invincibility
   powerup handed over. *)
InitActor == \E s \in GameStarts : s.difficulty = 1 /\ InitGameAt(s)

NextActor ==
  \/ MoveRight
  \/ StopHorizontal
  \/ AddPowerup("invincibility")
  \/ \E dt \in DtSet : Update(dt)

SpecActor == InitActor /\ [][NextActor]_vars

(* C14 as stated: every update() that returns player_death, by an enemy's
   hit or by the fall out of the level, has lowered lives, has set is_dead
   exactly when lives have reached 0, and with lives remaining leaves
   invincible_timer at PLAYER_INVINCIBILITY_AFTER_HIT. *)
C14_DeathGrantsInvincibility ==
  [][(frames' = frames + 1 /\ "player_death" \in events') =>
       /\ player'.lives < player.lives
       /\ player'.is_dead <=> player'.lives <= 0
       /\ player'.lives > 0 =>
            player'.invincible_timer = PLAYER_INVINCIBILITY_AFTER_HIT]_vars

(* C14, amended: every update() that returns player_death has lowered
   lives and has set is_dead exactly when lives have reached 0; with lives
   remaining, a death by an enemy's hit leaves invincible_timer at
   PLAYER_INVINCIBILITY_AFTER_HIT, and a death by the fall alone leaves the
   timer as update_powerups left it: unchanged, or lowered by dt. *)
C14_HitGrantsInvincibility ==
  [][(frames' = frames + 1 /\ "player_death" \in events') =>
       /\ player'.lives < player.lives
       /\ player'.is_dead <=> player'.lives <= 0
       /\ (player'.lives > 0 /\ player'.y <= Px(LEVEL_HEIGHT)) =>
            player'.invincible_timer = PLAYER_INVINCIBILITY_AFTER_HIT
       /\ (player'.lives = player.lives - 1 /\ player'.y > Px(LEVEL_HEIGHT)) =>
            \/ player'.invincible_timer = player.invincible_timer
            \/ \E dt \in DtSet :
                 /\ player.invincible_timer > 0
                 /\ player'.invincible_timer = player.invincible_timer - dt]_vars

(* An enemy's hit has left the actor alive, with the timer set. *)
C14_Witness ==
  /\ "player_death" \in events
  /\ player.lives > 0
  /\ player.y <= Px(LEVEL_HEIGHT)
  /\ player.invincible_timer = PLAYER_INVINCIBILITY_AFTER_HIT

(* The actor q overlaps a live enemy and is not stomping it. *)
hit_overlap(q, enms) ==
  \E i \in 1..Len(enms) :
    /\ ~enms[i].is_dead
    /\ colliderect(player_rect(q),
                   Rect(enms[i].x, Px(enms[i].y), enms[i].width, enms[i].height))
    /\ ~(/\ colliderect(q.bottom, Rect(enms[i].x, Px(enms[i].y),
                                       enms[i].width, enms[i].height))
         /\ q.velocity_y > 0)

(* Neither source of invincibility clears the other when it runs out: a
   step that ends the powerup leaves the timer to its countdown (or to a
   hit that sets it), and a step that ends the timer leaves a powerup that
   has more than the longest time step to run. *)
sources_independent ==
  /\ (player.active_powerups["invincibility"]
        /\ ~player'.active_powerups["invincibility"]) =>
       \/ player'.invincible_timer = PLAYER_INVINCIBILITY_AFTER_HIT
       \/ player'.invincible_timer = player.invincible_timer
       \/ \E dt \in DtSet :
            /\ player.invincible_timer > 0
            /\ player'.invincible_timer = player.invincible_timer - dt
  /\ (/\ player.invincible_timer > 0
      /\ player'.invincible_timer <= 0
      /\ player.active_powerups["invincibility"]
      /\ player.powerup_timers["invincibility"] > Sec(1)) =>
       /\ player'.active_powerups["invincibility"]
       /\ \E dt \in DtSet :
            player'.powerup_timers["invincibility"] =
              player.powerup_timers["invincibility"] - dt

(* C15 as stated: an update() called on an actor that is invincible (timer
   above 0, or powerup active) and overlaps a live enemy without stomping
   it lowers no life and returns no player_death; and neither source
   clears the other when it runs out. *)
C15_InvincibleTakesNoHit ==
  [][/\ (/\ frames' = frames + 1
         /\ ~player.is_dead
         /\ player.invincible_timer > 0 \/ player.active_powerups["invincibility"]
         /\ player'.y <= Px(LEVEL_HEIGHT)
         /\ hit_overlap(player', enemies)) =>
          /\ player'.lives = player.lives
          /\ "player_death" \notin events'
     /\ sources_independent]_vars

(* C15, amended: update() runs update_powerups(dt) before it tests the
   enemies; an actor that is still invincible then (timer above 0 after
   dt has been taken off, or powerup still active) and overlaps a live
   enemy without stomping it loses no life and no player_death is
   returned; and neither source clears the other when it runs out. *)
C15_StillInvincibleTakesNoHit ==
  [][/\ \A dt \in DtSet :
          (/\ frames' = frames + 1
           /\ ~player.is_dead
           /\ player' = update(player, dt, platforms, portals, collectibles,
                               enemies, current_dimension, now).player
           /\ \/ update_powerups(player, dt).invincible_timer > 0
              \/ update_powerups(player, dt).active_powerups["invincibility"]
           /\ player'.y <= Px(LEVEL_HEIGHT)
           /\ hit_overlap(player', enemies)) =>
            /\ player'.lives = player.lives
            /\ "player_death" \notin events'
     /\ sources_independent]_vars

(* The post-hit timer alone has protected the actor: after a hit, a later
   update has left it inside the enemy, alive as before, the timer still
   running and no powerup active. *)
C15_Witness ==
  /\ frames > 1
  /\ player.invincible_timer > 0
  /\ player.invincible_timer < PLAYER_INVINCIBILITY_AFTER_HIT
  /\ ~player.active_powerups["invincibility"]
  /\ hit_overlap(player, enemies)
  /\ "player_death" \notin events

(***************************************************************************)
(* SpecFaults: the running game with builds that throw                     *)
(***************************************************************************)
(* Where the try block of handle_level_completion may throw, and whether
   the two later builds throw: a later build is only reached after a
   throw, and after "gap" the build of the except block is not reached. *)
FaultSets ==
  { f \in [try : {"none", "early", "gap", "build"},
           fallback : BOOLEAN, last : BOOLEAN] :
      /\ f.try = "none" => ~f.fallback /\ ~f.last
      /\ f.try = "gap" => ~f.fallback
      /\ f.last => f.fallback \/ f.try = "gap" }

NextFaults ==
  \/ \E keys \in KeySets : HandleEvents(keys)
  \/ \E dt \in FrameDts, life \in GameLifetimes, faults \in FaultSets,
        draw \in DrawsAt(current_level) :
       ControllerUpdate(dt, life, faults, draw, "none", "none")

SpecFaults == InitGame /\ [][NextFaults]_vars

(* The handlers of the latest frame have left a newly constructed world
   holding level n and the actor at the spawn point, at rest. *)
left_level(n) ==
  /\ frame.after.taken
  /\ frame.after.current_level = n
  /\ frame.after.platforms = generate_level(n, frame.draw).platforms
  /\ frame.after.portals = generate_level(n, frame.draw).portals
  /\ frame.after.collectibles = generate_level(n, frame.draw).collectibles
  /\ frame.after.enemies = generate_level(n, frame.draw).enemies
  /\ frame.after.powerups = generate_level(n, frame.draw).powerups
  /\ frame.after.active_particles = 0
  /\ frame.after.player.x = Px(100)
  /\ frame.after.player.y = Px(300)
  /\ frame.after.player.velocity_x = 0
  /\ frame.after.player.velocity_y = 0

(* C16: when the build of level n+1 in handle_level_completion throws,
   the controller is left at level n with a new world holding level n;
   when the rebuild of level n throws too, at level 0 with a new world
   holding level 0; either way the actor is at the spawn point, the world
   is a whole level and no exception leaves the method.  (The build of
   level 0 is taken not to throw.) *)
C16_FallbackLadder ==
  (/\ frame.ran
   /\ frame.handled.completion # "none"
   /\ frame.faults.try # "none"
   /\ ~frame.faults.last) =>
    /\ frame.handled.completion # "escaped"
    /\ IF frame.faults.fallback THEN left_level(0)
       ELSE left_level(frame.level_before)

(* The build of level 2 has thrown after a fresh world was assigned, the
   rebuild of level 1 has gone through, and the game is at level 1. *)
C16_Witness ==
  /\ frame.ran
  /\ frame.handled.completion = "fallback"
  /\ frame.faults.try = "build"
  /\ frame.level_before = 1
  /\ left_level(1)

(***************************************************************************)
(* SpecLevels: the world rebuilt from level to level                       *)
(***************************************************************************)
NextLevels ==
  \/ \E n \in 0..MaxLevel : \E d \in LevelDraws(n) : GenerateLevel(n, d)
  \/ \E dt \in DtSet, life \in Lifetimes : WorldUpdate(dt, life)

SpecLevels == InitWorld /\ [][NextLevels]_vars

(* The registries hold what a build of level n with the draws d puts into
   an empty world, and nothing else. *)
holds_level(plats, colls, enms, prtls, pws, n, d) ==
  /\ plats = generate_level(n, d).platforms
  /\ colls = generate_level(n, d).collectibles
  /\ enms = generate_level(n, d).enemies
  /\ prtls = generate_level(n, d).portals
  /\ pws = generate_level(n, d).powerups

(* C17: after generate_level(n), for every n >= 0, the ground platform
   (0, SCREEN_HEIGHT - 50, SCREEN_WIDTH, 50) is in the platform registry
   and is its first entry, and the registries hold nothing that was there
   before the call. *)
C17_GroundPlatformFirst ==
  [][wframes' = wframes =>
       /\ Len(platforms') >= 1
       /\ platforms'[1] = Floor
       /\ \E n \in 0..MaxLevel : \E d \in LevelDraws(n) :
            holds_level(platforms', collectibles', enemies', portals',
                        powerups', n, d)]_vars

(* Level 3 has been generated: the ground platform is there, as the last
   entry of the nine. *)
C17_Witness ==
  /\ Len(platforms) = 9
  /\ platforms[9] = Floor
  /\ platforms[1] # Floor
  /\ Len(enemies) = 3

(***************************************************************************)
(* The flags of the registries (SpecGame)                                  *)
(***************************************************************************)
(* The step has not replaced the world. *)
same_registry ==
  /\ frame'.handled.completion = "none"
  /\ frame'.handled.death # "reset"

(* A flag that is set stays set, at the same place of its registry. *)
flags_kept ==
  /\ \A i \in 1..Len(collectibles) :
       collectibles[i].collected =>
         i <= Len(collectibles') /\ collectibles'[i].collected
  /\ \A i \in 1..Len(powerups) :
       powerups[i].collected => i <= Len(powerups') /\ powerups'[i].collected
  /\ \A i \in 1..Len(enemies) :
       enemies[i].is_dead => i <= Len(enemies') /\ enemies'[i].is_dead

(* The actor has been given a powerup in the step: one has become active,
   or the time one has left has grown. *)
powerup_gained ==
  \E t \in PowerupTypes :
    /\ player'.active_powerups[t]
    /\ \/ ~player.active_powerups[t]
       \/ player'.powerup_timers[t] > player.powerup_timers[t]

(* C18: as long as the world is not rebuilt, Collectible.collected,
   Powerup.collected and Enemy.is_dead, once true, are never false again,
   whatever Player.update, World.update and
   check_player_powerup_collisions are called; so every collect and
   enemy_death event and every powerup given comes with a flag that was
   not set before: nothing is collected or killed twice. *)
C18_FlagsOneWay ==
  [][same_registry =>
       /\ flags_kept
       /\ (frames' = frames + 1 /\ active_menu = "none") =>
            /\ "collect" \in events' =>
                 \E i \in 1..Len(collectibles) :
                   ~collectibles[i].collected /\ collectibles'[i].collected
            /\ "enemy_death" \in events' =>
                 \E i \in 1..Len(enemies) :
                   ~enemies[i].is_dead /\ enemies'[i].is_dead
            /\ powerup_gained =>
                 \E i \in 1..Len(powerups) :
                   ~powerups[i].collected /\ powerups'[i].collected]_vars

(* The powerup of the time-warp level was collected in an earlier frame,
   and a later frame has left the actor on it without another collection. *)
C18_Witness ==
  /\ frames >= 2
  /\ frame.ran
  /\ current_level = 2
  /\ Len(powerups) >= 1
  /\ powerups[1].collected
  /\ colliderect(player_rect(player), get_rect(powerups[1]))
  /\ player.active_powerups["gravity"]
  /\ player.powerup_timers["gravity"] < Duration("gravity")

(***************************************************************************)
(* What the handlers of a frame leave (SpecGame)                           *)
(***************************************************************************)
(* C19: after reset_level (player_death with lives left) and after
   handle_level_completion has gone through, the world is a new one
   holding current_level: nothing collected, no enemy dead, no active
   particle, the actor at (100, 300) with no velocity; current_level is
   one more than before on level_complete and as before on a death
   alone. *)
C19_HandlersLeaveFreshLevel ==
  (/\ frame.ran
   /\ frame.handled.completion = "built" \/ frame.handled.death = "reset") =>
    /\ frame.after.taken
    /\ \A i \in 1..Len(frame.after.collectibles) :
         ~frame.after.collectibles[i].collected
    /\ \A i \in 1..Len(frame.after.enemies) : ~frame.after.enemies[i].is_dead
    /\ \A i \in 1..Len(frame.after.powerups) :
         ~frame.after.powerups[i].collected
    /\ frame.after.active_particles = 0
    /\ frame.after.player.x = Px(100)
    /\ frame.after.player.y = Px(300)
    /\ frame.after.player.velocity_x = 0
    /\ frame.after.player.velocity_y = 0
    /\ frame.after.current_level =
         IF frame.handled.completion = "built" THEN frame.level_before + 1
         ELSE frame.level_before
    /\ holds_level(frame.after.platforms, frame.after.collectibles,
                   frame.after.enemies, frame.after.portals,
                   frame.after.powerups, frame.after.current_level,
                   frame.draw)

(* A frame in which the actor took a collectible and was hit with lives
   left: reset_level has run, and the new world has every collectible. *)
C19_Witness ==
  /\ frame.ran
  /\ frame.handled.death = "reset"
  /\ frame.handled.completion = "none"
  /\ "collect" \in events
  /\ Len(frame.after.collectibles) = 4
  /\ \A i \in 1..4 : ~frame.after.collectibles[i].collected
  /\ current_level = 1

(***************************************************************************)
(* The cooldown of the dimension switch (SpecGame)                         *)
(***************************************************************************)
(* C20: between two dimension switches of the controller the frames have
   added up to at least DIMENSION_CHANGE_COOLDOWN (1 second): a request
   made while dimension_cooldown is above 0 leaves current_dimension as
   it is. *)
C20_SwitchesOneSecondApart ==
  [][/\ current_dimension' # current_dimension =>
          \/ ~switched.any
          \/ switched.elapsed >= DIMENSION_CHANGE_COOLDOWN
     /\ (switched'.requested /\ dimension_cooldown > 0) =>
          current_dimension' = current_dimension]_vars

(* A second switch has just been made, frames adding up to a second after
   the first. *)
C20_Witness ==
  /\ switched.any
  /\ switched.elapsed = 0
  /\ current_dimension = 3
  /\ frames >= 2
  /\ dimension_cooldown = DIMENSION_CHANGE_COOLDOWN

(***************************************************************************)
(* The horizontal resolutions of the resolver (SpecGate)                   *)
(***************************************************************************)
(* Platform i is the only platform the actor q overlaps when the resolver
   starts, it is not the landing case, and the overlap is narrower than it
   is high: the side test gives a horizontal side. *)
horizontal_hit(q, plats, dim, i) ==
  /\ resolver_entry(q, plats, dim).contacts = {i}
  /\ ~(i \in resolver_entry(q, plats, dim).probe /\ q.velocity_y >= 0)
  /\ overlap_x(player_rect(q), get_rect(plats[i])) <
       overlap_y(player_rect(q), get_rect(plats[i]))

(* C21: on a horizontal collision (ox < oy) the resolver puts the actor at
   the edge of the platform on the side where the actor's centre is (centre
   left of the platform's centre: the left edge, else the right edge), one
   unit inside, and sets velocity_x to 0; the actor is not moved to the
   other side and overlaps the platform by no more than one unit. *)
C21_PushedOutOnOwnSide ==
  [][\A dt \in DtSet : \A i \in 1..Len(platforms) :
       (/\ frames' = frames + 1
        /\ ~player.is_dead
        /\ player' = update(player, dt, platforms, portals, collectibles,
                            enemies, current_dimension, now).player
        /\ horizontal_hit(integrate(player, dt), platforms,
                          current_dimension, i)) =>
         /\ player'.velocity_x = 0
         /\ player'.x =
              IF centerx(player_rect(integrate(player, dt))) <
                   centerx(get_rect(platforms[i]))
              THEN Px(platforms[i].x - Player_width + 1)
              ELSE Px(platforms[i].x + platforms[i].width - 1)
         /\ overlap_x(player_rect(player'), get_rect(platforms[i])) <= 1]_vars

(* The actor that ran into the left edge of the platform at x = 300..400
   has been put at its right edge, x = 399. *)
C21_Witness ==
  /\ frames = 1
  /\ player.x = Px(399)
  /\ player.velocity_x = 0
  /\ hist.entry.contacts = {2}
  /\ ~player.on_ground

(***************************************************************************)
(* SpecSide: the side test on its own                                      *)
(***************************************************************************)
(* Rectangles of whole numbers with sides up to MaxSide: the second one in
   the middle, the first one anywhere around it. *)
FirstRects ==
  [x : 0..(2 * MaxSide), y : 0..(2 * MaxSide), w : 1..MaxSide, h : 1..MaxSide]

SecondRects == [x : {MaxSide}, y : {MaxSide}, w : 1..MaxSide, h : 1..MaxSide]

(* One call of check_collision. *)
CheckCollision(rect1, rect2) ==
  /\ ~sided.called
  /\ sided' = [called |-> TRUE, rect1 |-> rect1, rect2 |-> rect2,
               side |-> check_collision(rect1, rect2)]
  /\ UNCHANGED << current_level, dimension_cooldown, difficulty, active_menu,
                  frame, switched, current_dimension, spawn >>
  /\ UNCHANGED actor_vars
  /\ UNCHANGED registry_vars
  /\ UNCHANGED particle_vars

NextSide ==
  \E rect1 \in FirstRects, rect2 \in SecondRects : CheckCollision(rect1, rect2)

SpecSide == InitWorld /\ [][NextSide]_vars

(* The two rectangles share a point of the plane: a unit cell. *)
share_cell(a, b) ==
  \E cx \in a.x..(a.x + a.w - 1), cy \in a.y..(a.y + a.h - 1) :
    /\ b.x <= cx /\ cx < b.x + b.w
    /\ b.y <= cy /\ cy < b.y + b.h

(* C22: check_collision(a, b) returns "" exactly when the rectangles do
   not overlap; when they do, with ox and oy the widths of the overlap, it
   returns a vertical side exactly when ox >= oy ("bottom" when a's
   centre-y is above b's, else "top"), and a horizontal side exactly when
   ox < oy, by the centres' x ("right" when a's centre-x is left of b's,
   else "left"). *)
C22_SideTest ==
  sided.called =>
    LET a == sided.rect1
        b == sided.rect2
        ox == Min(a.x + a.w, b.x + b.w) - Max(a.x, b.x)
        oy == Min(a.y + a.h, b.y + b.h) - Max(a.y, b.y)
        a_above == a.y + a.h \div 2 < b.y + b.h \div 2
        a_left == a.x + a.w \div 2 < b.x + b.w \div 2
    IN /\ sided.side = "" <=> ~share_cell(a, b)
       /\ share_cell(a, b) =>
            /\ sided.side \in {"bottom", "top"} <=> ox >= oy
            /\ sided.side \in {"left", "right"} <=> ox < oy
            /\ sided.side = "bottom" <=> (ox >= oy /\ a_above)
            /\ sided.side = "top" <=> (ox >= oy /\ ~a_above)
            /\ sided.side = "right" <=> (ox < oy /\ a_left)
            /\ sided.side = "left" <=> (ox < oy /\ ~a_left)

(* A tie: the overlap is as wide as it is high, and the side is vertical. *)
C22_Witness ==
  /\ sided.called
  /\ share_cell(sided.rect1, sided.rect2)
  /\ overlap_x(sided.rect1, sided.rect2) = 2
  /\ overlap_y(sided.rect1, sided.rect2) = 2
  /\ sided.side = "bottom"

(***************************************************************************)
(* C23: the stomp.  A random level whose first two enemies stand side by   *)
(* side on one platform, and an actor falling onto them.                   *)
(***************************************************************************)
(* What _generate_random_level draws for level 3 here: eight platforms at
   (100, 620) of width 100, and every enemy on the same one of them, at
   the least offset (20) and the greatest (width - 40) in turn. *)
PairDraw ==
  [drawn(3, "row") EXCEPT !.enemies = [i \in 1..3 |-> [pick |-> 1,
                                                       low |-> i % 2 = 1]]]

PairLevel == generate_level(3, PairDraw)

(* The falling actor: above the first enemy, over the seam of the two with
   its left margin on the first, and above the second only. *)
StompStarts == { [x |-> 130, y |-> 540], [x |-> 156, y |-> 540],
                 [x |-> 165, y |-> 540] }

InitStomp ==
  /\ \E s \in StompStarts :
        /\ spawn = [x |-> Px(s.x), y |-> Px(s.y)]
        /\ player = [reset(Px(s.x), Px(s.y), 0) EXCEPT !.velocity_y = Px(2)]
  /\ now = PortalCooldown
  /\ current_dimension = 1
  /\ platforms = PairLevel.platforms
  /\ portals = PairLevel.portals
  /\ collectibles = PairLevel.collectibles
  /\ enemies = PairLevel.enemies
  /\ powerups = PairLevel.powerups
  /\ events = {}
  /\ frames = 0
  /\ given = 0
  /\ hist = InitHist
  /\ InitNoParticles
  /\ InitControllerAt(3, 1)

SpecStomp == InitStomp /\ [][NextActor]_vars

(* The actor as check_enemy_collisions finds it in update(dt): moved,
   resolved against the platforms, its powerups aged. *)
before_enemies(dt) ==
  update_collect(
    update_portal(update_physics(player, dt, platforms, collectibles, enemies,
                                 current_dimension),
                  portals, now)).player

enemy_rect(e) == Rect(e.x, Px(e.y), e.width, e.height)

(* The bottom probe of the falling actor q lies on the live enemy e. *)
probe_on(q, e) ==
  ~e.is_dead /\ colliderect(q.bottom, enemy_rect(e)) /\ q.velocity_y > 0

(* The live enemy e is one that the enemy test of actor q does not pass
   over: the actor's rectangle overlaps it, and the actor stomps it or can
   be hurt. *)
touched(q, e) ==
  /\ ~e.is_dead
  /\ colliderect(player_rect(q), enemy_rect(e))
  /\ (probe_on(q, e) \/ ~is_invincible(q))

(* What a stomp of the actor q leaves behind. *)
stomp_done(q) ==
  /\ player'.velocity_y = (PLAYER_JUMP_STRENGTH * 7) \div 10
  /\ "enemy_death" \in events'
  /\ (q.y <= Px(LEVEL_HEIGHT) =>
        player'.lives = player.lives /\ "player_death" \notin events')
  /\ Cardinality({ j \in 1..Len(enemies) :
                     enemies'[j].is_dead /\ ~enemies[j].is_dead }) <= 1

(* An update(dt) of the living actor. *)
updates(dt) ==
  /\ frames' = frames + 1
  /\ ~player.is_dead
  /\ player' = update(player, dt, platforms, portals, collectibles, enemies,
                      current_dimension, now).player
  /\ enemies' = update(player, dt, platforms, portals, collectibles, enemies,
                       current_dimension, now).enemies

(* C23 as stated: an update() that finds the falling actor's bottom probe on
   a live enemy kills such an enemy, sets velocity_y to 0.7 x
   PLAYER_JUMP_STRENGTH, emits enemy_death, takes no life for an enemy's
   hit, and kills at most one enemy. *)
C23_StompKills ==
  [][\A dt \in DtSet :
       (/\ updates(dt)
        /\ \E i \in 1..Len(enemies) : probe_on(before_enemies(dt), enemies[i]))
       => /\ \E i \in 1..Len(enemies) :
               probe_on(before_enemies(dt), enemies[i]) /\ enemies'[i].is_dead
          /\ stomp_done(before_enemies(dt))]_vars

(* C23 amended: the enemies are tested in registry order and the first one
   that the actor's rectangle overlaps decides; when that one is under the
   bottom probe of the falling actor, it is the one enemy killed, the actor
   bounces, enemy_death is emitted and no enemy takes a life. *)
C23_FirstTouchedIsStomped ==
  [][\A dt \in DtSet : \A i \in 1..Len(enemies) :
       (/\ updates(dt)
        /\ touched(before_enemies(dt), enemies[i])
        /\ \A j \in 1..(i - 1) : ~touched(before_enemies(dt), enemies[j])
        /\ probe_on(before_enemies(dt), enemies[i]))
       => /\ enemies'[i].is_dead
          /\ stomp_done(before_enemies(dt))]_vars

(* The actor has come down on the second enemy alone and bounced off it. *)
C23_Witness ==
  /\ frames = 1
  /\ enemies = [PairLevel.enemies EXCEPT ![2].is_dead = TRUE]
  /\ player.velocity_y = (PLAYER_JUMP_STRENGTH * 7) \div 10
  /\ player.lives = PLAYER_STARTING_LIVES
  /\ "enemy_death" \in events

(***************************************************************************)
(* C24: the camera smoothing of World.update in the frames of the game     *)
(***************************************************************************)
(* C24 as stated: in every frame of the game the smoothing factor
   k = 0.1 x dt x 60 of World.update lies in [0, 1] (0..10 tenths), dt being
   the step that World.update was given. *)
C24_SmoothingWithinUnit ==
  (frame.ran /\ compacted.dt > 0) =>
     /\ 0 <= camera_smoothing(compacted.dt)
     /\ camera_smoothing(compacted.dt) <= 10

(* A frame of a tenth of a second has run in the normal dimension at normal
   difficulty, and World.update was given a whole second. *)
C24_Witness ==
  /\ frame.ran
  /\ frame.dt = Sec(1) \div 10
  /\ frame.step = Sec(1)
  /\ compacted.dt = Sec(1)
  /\ camera_smoothing(compacted.dt) = 60

(***************************************************************************)
(* C25: lives across the deaths of a running game (SpecGame)               *)
(***************************************************************************)
(* C25 as stated: lives lost persist across death-resets, so that the third
   player_death ends the game: every frame of the running game in which
   update() reports player_death leaves the actor with fewer lives than it
   had before the frame, handling the death never raises them again, and
   with no life left the actor is dead and the game-over menu is active. *)
C25_LivesLostPersist ==
  [][(/\ frames' = frames + 1
      /\ active_menu = "none"
      /\ frame'.ran
      /\ "player_death" \in events')
     => /\ player'.lives < player.lives
        /\ player'.lives <= 0 =>
             player'.is_dead /\ active_menu' = "game_over"]_vars

(* An enemy has hit the actor, reset_level has run, and the actor has all
   its lives again. *)
C25_Witness ==
  /\ frame.ran
  /\ frame.handled.death = "reset"
  /\ "player_death" \in events
  /\ player.lives = PLAYER_STARTING_LIVES
  /\ active_menu = "none"

(***************************************************************************)
(* C26: the lives one update() can take                                    *)
(***************************************************************************)
(* Player.update takes the enemies as an argument.  Here the list holds one
   enemy below the fall-out line LEVEL_HEIGHT, over the pit beyond the
   floor; the levels that World builds have none there. *)
PitLevel ==
  [platforms |-> << Floor >>,
   enemies |-> << Enemy(1400, LEVEL_HEIGHT + 10, 1350, 1500) >>,
   collectibles |-> << >>, portals |-> << >>, powerups |-> << >>]

(* The actor falling towards the line, beside the enemy and above it, with
   its first and its last life. *)
PitStarts ==
  { [x |-> x, y |-> y, lives |-> lives] :
      x \in {1400, 1300}, y \in {995, 940}, lives \in {1, PLAYER_STARTING_LIVES} }

InitPit ==
  /\ \E s \in PitStarts :
        /\ spawn = [x |-> Px(s.x), y |-> Px(s.y)]
        /\ player = [reset(Px(s.x), Px(s.y), 0) EXCEPT !.velocity_y = Px(10),
                                                        !.lives = s.lives]
  /\ now = PortalCooldown
  /\ current_dimension = 1
  /\ platforms = PitLevel.platforms
  /\ portals = PitLevel.portals
  /\ collectibles = PitLevel.collectibles
  /\ enemies = PitLevel.enemies
  /\ powerups = PitLevel.powerups
  /\ events = {}
  /\ frames = 0
  /\ given = 0
  /\ hist = InitHist
  /\ InitNoParticles
  /\ InitControllerAt(1, 1)

SpecPit == InitPit /\ [][NextActor]_vars

(* C26 as stated: one update() lowers lives by at most 1, also when an
   enemy's hit and the fall below LEVEL_HEIGHT come in the same update, and
   lives is never negative. *)
C26_OneLifePerUpdate ==
  [][(frames' = frames + 1) =>
       /\ player'.lives >= player.lives - 1
       /\ player'.lives >= 0]_vars

(* The actor's last life was taken by the enemy and the fall took one more. *)
C26_Witness ==
  /\ frames = 1
  /\ player.is_dead
  /\ player.lives = -1
  /\ "player_death" \in events

(***************************************************************************)
(* C27: the actor at its operation boundaries                              *)
(***************************************************************************)
(* Every operation of the actor in any order: reset, jump, the moves,
   add_powerup and update, from the ledge of the mirror level, with the
   time step of the normal dimension. *)
InitBoundary ==
  /\ InitActorAt([x |-> 400, y |-> 441, dim |-> 2], MirrorLevel)
  /\ InitNoParticles
  /\ InitControllerAt(1, 1)

NextBoundary ==
  \/ Jump
  \/ MoveLeft
  \/ MoveRight
  \/ StopHorizontal
  \/ AddPowerup("jump")
  \/ Update(Sec(1))
  \/ Reset

SpecBoundary == InitBoundary /\ [][NextBoundary]_vars

(* C27: between the operations of the actor, on_ground implies that
   velocity_y is 0 and jump_count is 0. *)
C27_GroundedAtRest ==
  player.on_ground => (player.velocity_y = 0 /\ player.jump_count = 0)

(* The actor has jumped off the ground with the jump powerup and has
   landed again. *)
C27_Witness ==
  /\ player.on_ground
  /\ player.active_powerups["jump"]
  /\ hist.rise
  /\ frames >= 3
  /\ player.velocity_y = 0
  /\ player.jump_count = 0

(***************************************************************************)
(* C28: the powerup bookkeeping at the operation boundaries (SpecPowerup)  *)
(***************************************************************************)
(* The flags, the timers and the jump limit of actor p agree. *)
powerups_agree(p) ==
  /\ \A t \in PowerupTypes :
       p.active_powerups[t] <=> t \in DOMAIN p.powerup_timers
  /\ \A t \in DOMAIN p.powerup_timers : p.powerup_timers[t] > 0
  /\ p.max_jumps = IF p.active_powerups["jump"] THEN 3 ELSE 2

(* C28: between the operations of the actor a powerup is active exactly
   when it has a timer entry, every entry is above 0, max_jumps is 3 exactly
   when the jump powerup is active and 2 otherwise; and no operation but
   add_powerup, so no update_powerups, adds a timer or raises one. *)
C28_PowerupBookkeeping ==
  [][/\ powerups_agree(player)
     /\ powerups_agree(player')
     /\ given' = given =>
          \A t \in DOMAIN player'.powerup_timers :
             /\ t \in DOMAIN player.powerup_timers
             /\ player'.powerup_timers[t] <= player.powerup_timers[t]]_vars

(* Of two powerups given, invincibility has run out and jump is running. *)
C28_Witness ==
  /\ given = 2
  /\ ~player.active_powerups["invincibility"]
  /\ "invincibility" \notin DOMAIN player.powerup_timers
  /\ player.active_powerups["jump"]
  /\ player.powerup_timers["jump"] < Duration("jump")
  /\ player.max_jumps = 3

(***************************************************************************)
(* C29: the actor's x at the end of update                                 *)
(***************************************************************************)
(* The actor has walked off the right end of the floor of the mirror level
   at x = 1280 and has fallen for twelve updates of one second. *)
EdgeStart == [x |-> 1280, y |-> 649, vy |-> 6]

InitEdge ==
  /\ spawn = [x |-> Px(EdgeStart.x), y |-> Px(EdgeStart.y)]
  /\ player = [reset(Px(EdgeStart.x), Px(EdgeStart.y), 0)
                 EXCEPT !.velocity_y = Px(EdgeStart.vy)]
  /\ now = PortalCooldown
  /\ current_dimension = 1
  /\ platforms = MirrorLevel.platforms
  /\ portals = MirrorLevel.portals
  /\ collectibles = MirrorLevel.collectibles
  /\ enemies = MirrorLevel.enemies
  /\ powerups = << >>
  /\ events = {}
  /\ frames = 0
  /\ given = 0
  /\ hist = InitHist
  /\ InitNoParticles
  /\ InitControllerAt(1, 1)

NextEdge ==
  \/ Jump
  \/ MoveLeft
  \/ StopHorizontal
  \/ \E dt \in DtSet : Update(dt)

SpecEdge == InitEdge /\ [][NextEdge]_vars

(* C29 as stated: at the end of every update() the actor's x lies in
   [0, LEVEL_WIDTH - width]. *)
C29_WithinLevel ==
  frames > 0 => (player.x >= 0 /\ player.x <= Px(LEVEL_WIDTH - Player_width))

(* The actor has jumped back towards the floor, has met its right end while
   rising, and stands 39 units left of the level. *)
C29_Witness ==
  /\ frames = 1
  /\ player.x = Px(1 - Player_width)
  /\ player.velocity_x = 0
  /\ player.velocity_y < 0

(***************************************************************************)
(* C30: resting contact (Spec)                                             *)
(***************************************************************************)
(* The actor p stands with its bottom exactly on the top of a platform that
   is solid in dimension dim. *)
rests_on(p, pl, dim) ==
  /\ isActiveIn(pl.dimension_visible, dim)
  /\ p.y = Px(pl.y - Player_height)
  /\ Trunc(p.x) < pl.x + pl.width
  /\ pl.x < Trunc(p.x) + Player_width

(* No enemy and no portal overlaps the actor p. *)
alone(p) ==
  /\ \A i \in 1..Len(enemies) :
       ~colliderect(player_rect(p), enemy_rect(enemies[i]))
  /\ \A i \in 1..Len(portals) :
       ~colliderect(player_rect(p), get_rect(portals[i]))

(* C30 as stated: an actor that is on_ground with its bottom on the top of
   a solid platform, without horizontal velocity and with no enemy or portal
   on it, is on_ground with the same y after an update(): on_ground does
   not flicker. *)
C30_RestingContactStable ==
  [][(/\ frames' = frames + 1
      /\ ~player.is_dead
      /\ player.on_ground
      /\ player.velocity_x = 0
      /\ alone(player)
      /\ \E i \in 1..Len(platforms) :
            rests_on(player, platforms[i], current_dimension))
     => (player'.on_ground /\ player'.y = player.y)]_vars

(* The actor has landed on Platform(400, 500) in the first update and hangs
   half a unit lower, off the ground, after the second. *)
C30_Witness ==
  /\ frames = 2
  /\ ~player.on_ground
  /\ player.x = Px(400)
  /\ player.y = Px(440) + Px(1) \div 2
  /\ player.velocity_y = Px(1) \div 2
  /\ player.jump_count = 0

====
